---------------------------- MODULE Spec2Model ----------------------------
(* Bovitrack: the event store (purchases, weighings, location changes,     *)
(* diet logs, sales, deaths) and the KPI / weight-history computations     *)
(* that both backends (Flask app/, Django backend_django/) derive from it. *)
(*                                                                         *)
(* Units.  Dates are day numbers.  Weights are integers in grams, so that  *)
(* round(x, 2) on kilograms is rounding to a multiple of 10 g and          *)
(* round(gmd, 3) on kg/day is rounding to a whole number of g/day.  Ages   *)
(* are in hundredths of a month.  Quotients that the code keeps unrounded  *)
(* are exact fractions [num, den].                                         *)
(* None/NULL is the empty tuple and a present optional value v is <<v>>.   *)
EXTENDS Integers, Sequences, FiniteSets, TLC

VARIABLES backend,          \* which backend serves the store: "flask" or "django"
          today,            \* date.today()
          purchase,         \* table Purchase, row id = index
          weighting,        \* table Weighting, row id = index
          location_change,  \* table LocationChange, row id = index
          diet_log,         \* table DietLog, row id = index
          sale,             \* table Sale, row id = index
          death,            \* table Death, row id = index
          location,         \* ids of the rows of table Location
          sublocation,      \* ids of the rows of table Sublocation
          stock_request,    \* an active-stock request between its two queries
          pending,          \* Django sale/death requests between check and insert
          sanitary_protocol, \* table SanitaryProtocol, row id = index
          farm,             \* table Farm: the rows as records id, name
          export_file,      \* the last file that export_farms sent, NULL before
          exported,         \* the rows the last export read, kept for comparison
          import_response   \* the status of the answer of import_farms, NULL before

\* the farm's places and the requests in flight
catalog == <<location, sublocation>>
inflight == <<stock_request, pending>>
transfer == <<farm, export_file, exported, import_response>>

vars == <<backend, today, purchase, weighting, location_change, diet_log, sale, death,
          catalog, inflight, sanitary_protocol, transfer>>

-----------------------------------------------------------------------------
(* Bounds and input domains *)

MaxDate == 2
MaxAnimals == 1
MaxRows == 5

Dates == 0 .. MaxDate
HistoryDates == 0 .. MaxDate + 1
EntryDates == {1}
Weights == {200000, 200005, 210000}
EntryWeights == {200000}
Farms == {1}
Locations == {1, 2}
EarTags == {"T1", "T2"}
Lots == {"L1"}
EntryAges == {1200}

NULL == <<>>
Some(x) == <<x>>
Val(o) == o[1]

DietTypes == {"pasture", "feedlot"}
DietInputs == {[diet_type |-> "pasture", intake |-> NULL],
               [diet_type |-> "feedlot", intake |-> Some(2)]}
OptWeights == {NULL, Some(210000)}
\* the farm_id of a request's URL: the farm of the store and another one
RequestFarms == {1, 2}
\* the dates of the protocols of a sanitary batch, in the order of the list
ProtocolBatches == {<<1>>, <<2, 1>>}

LocationFarm(l) == 1
FarmNames == {"Fazenda"}
\* the farm every store starts with
InitialFarms == {[id |-> 1, name |-> "Fazenda"]}
LocationName(l) == IF l = 1 THEN "Pasture A" ELSE "Pasture B"
SublocationName(sl) == "Paddock"

\* table Sublocation: sublocations 1 and 2 lie in location 1, sublocation 3 in
\* location 2
Sublocations == {1, 2, 3}
SublocationLocation(sl) == IF sl = 3 THEN 2 ELSE 1
SublocationFarm(sl) == LocationFarm(SublocationLocation(sl))
NoSublocation == {NULL}

\* no active-stock request is between its queries
NoStockRequest == [pc |-> "idle", total_active_animals |-> 0, animals |-> {}]
BulkDates == {1, 2}
OptSublocations == {NULL} \cup {Some(sl) : sl \in Sublocations}

-----------------------------------------------------------------------------
(* Numeric helpers *)

Abs(x) == IF x < 0 THEN 0 - x ELSE x

\* round(n / d) to the nearest integer, ties to the even neighbour (d > 0)
RoundDiv(n, d) ==
    LET q == n \div d
        r == n % d
    IN  IF 2 * r < d THEN q
        ELSE IF 2 * r > d THEN q + 1
        ELSE IF q % 2 = 0 THEN q ELSE q + 1

Unrounded(w) == w

\* round(kg, 2): grams rounded to a multiple of 10 g
Round2(w) == RoundDiv(w, 10) * 10

\* round(kg_per_day, 3) of the quotient gain / days: whole grams per day
Round3(gain, days) == RoundDiv(gain, days)

-----------------------------------------------------------------------------
(* Table helpers *)

Ids(table) == 1 .. Len(table)
Animals == Ids(purchase)

\* ids of the rows of a table that belong to animal a, in row-id order (the
\* order in which an unordered SELECT of the relationship returns them)
RowsOf(table, a) ==
    SelectSeq([i \in 1 .. Len(table) |-> i], LAMBDA i : table[i].animal_id = a)

RowCount ==
    Len(weighting) + Len(location_change) + Len(diet_log) + Len(sale) + Len(death)
    + Len(sanitary_protocol)

Weighting(a, f, d, w) == [animal_id |-> a, farm_id |-> f, date |-> d, weight_kg |-> w]
LocationChange(a, f, d, l, s) ==
    [animal_id |-> a, farm_id |-> f, date |-> d, location_id |-> l, sublocation_id |-> s]
DietLog(a, f, d, t, i) ==
    [animal_id |-> a, farm_id |-> f, date |-> d, diet_type |-> t, daily_intake_percentage |-> i]
Sale(a, f, d) == [animal_id |-> a, farm_id |-> f, date |-> d]
SanitaryProtocol(a, f, d, t) ==
    [animal_id |-> a, farm_id |-> f, date |-> d, protocol_type |-> t]
Death(a, f, d) == [animal_id |-> a, farm_id |-> f, date |-> d]

\* Purchase.is_sold / Purchase.is_dead, hasattr(animal, 'sale') / hasattr(animal, 'death')
is_sold(a) == \E i \in Ids(sale) : sale[i].animal_id = a
is_dead(a) == \E i \in Ids(death) : death[i].animal_id = a

\* optional weighting recorded together with a location change or diet log
WithOptionalWeight(a, f, d, optw) ==
    IF optw # NULL /\ Val(optw) > 0
    THEN Append(weighting, Weighting(a, f, d, Val(optw)))
    ELSE weighting

-----------------------------------------------------------------------------
(* Python's sorted(): a stable sort of a list of row ids by the row's date *)

\* The element at position i of the input lands behind the elements whose
\* date sorts strictly before its date (after it, with reverse=True) and
\* behind the earlier elements of the same date: equal keys keep their order
SortedByDate(ids, table, reverse) ==
    LET n == Len(ids)
        precedes(j, i) ==
            \/ (IF reverse THEN table[ids[j]].date > table[ids[i]].date
                ELSE table[ids[j]].date < table[ids[i]].date)
            \/ (table[ids[j]].date = table[ids[i]].date /\ j < i)
        position(i) == 1 + Cardinality({j \in 1 .. n : precedes(j, i)})
    IN  [k \in 1 .. n |-> ids[CHOOSE i \in 1 .. n : position(i) = k]]

\* QuerySet.order_by('-date', '-id').first(): id of the row of animal a with
\* the greatest (date, id), NULL when the animal has no row
LatestByDateAndId(table, a) ==
    LET rows == {i \in Ids(table) : table[i].animal_id = a}
    IN  IF rows = {} THEN NULL
        ELSE Some(CHOOSE i \in rows : \A j \in rows :
                     \/ table[j].date < table[i].date
                     \/ (table[j].date = table[i].date /\ j <= i))

SaleOf(a) == sale[CHOOSE i \in Ids(sale) : sale[i].animal_id = a]

DeathOf(a) == death[CHOOSE i \in Ids(death) : death[i].animal_id = a]

DaysOnFarmUntilNow(event, p, now) == now - p.entry_date

\* (self.sale.date - self.entry_date).days, (self.death.date - self.entry_date).days
days_on_farm_until(event, p, now) == event.date - p.entry_date

\* round(entry_age + days_on_farm / 30.44, 2), in hundredths of a month
AgeMonths(entry_age, days_on_farm) ==
    RoundDiv(entry_age * 3044 + days_on_farm * 10000, 3044)

\* round(last_weight + days_since_last_weight * gmd, 2) with gmd = gain / days
\* (gmd = 0.0 is passed as gain 0 over 1 day)
Forecast(last_weight, gain, days, days_since_last_weight) ==
    RoundDiv(last_weight * days + days_since_last_weight * gain, 10 * days) * 10

\* kpis['forecasted_current_weight_kg'] of the status-aware branches: None
\* for a sold or dead animal, the extrapolated weight for an active one
ForecastedNeverNull(terminal, last_weight, gain, days, days_since_last_weight) ==
    Some(Forecast(last_weight, gain, days, days_since_last_weight))

forecasted_current_weight_kg(terminal, last_weight, gain, days, days_since_last_weight) ==
    IF terminal THEN NULL
    ELSE Some(Forecast(last_weight, gain, days, days_since_last_weight))

\* the most recent location change / diet log as Flask resolves it:
\* sorted(rows, key=lambda lc: lc.date, reverse=True)[0]
latest_by_sorted(table, a) == Head(SortedByDate(RowsOf(table, a), table, TRUE))

-----------------------------------------------------------------------------
(* Flask: Purchase.calculate_kpis *)

calculate_kpis_at(a, now) ==
    LET p == purchase[a]
        lcs == RowsOf(location_change, a)
        latest_change == location_change[latest_by_sorted(location_change, a)]
        current_location_name ==
            IF lcs # << >> THEN Some(LocationName(latest_change.location_id)) ELSE Some("N/A")
        current_location_id ==
            IF lcs # << >> THEN Some(latest_change.location_id) ELSE NULL
        has_sub == lcs # << >> /\ latest_change.sublocation_id # NULL
        current_sublocation_name ==
            IF has_sub THEN Some(SublocationName(Val(latest_change.sublocation_id))) ELSE NULL
        current_sublocation_id ==
            IF has_sub THEN latest_change.sublocation_id ELSE NULL
        dls == RowsOf(diet_log, a)
        latest_diet == diet_log[latest_by_sorted(diet_log, a)]
        current_diet_type == IF dls # << >> THEN Some(latest_diet.diet_type) ELSE Some("N/A")
        current_diet_intake == IF dls # << >> THEN latest_diet.daily_intake_percentage ELSE NULL
        sorted_weights == SortedByDate(RowsOf(weighting, a), weighting, FALSE)
        many == Len(sorted_weights) > 1
        first_weighting == weighting[sorted_weights[1]]
        last_weighting == weighting[sorted_weights[Len(sorted_weights)]]
        last_weight == IF many THEN last_weighting.weight_kg ELSE p.entry_weight
        last_weighting_date == IF many THEN last_weighting.date ELSE p.entry_date
        total_days == IF many THEN last_weighting.date - first_weighting.date ELSE 0
        total_gain == IF many THEN last_weighting.weight_kg - first_weighting.weight_kg ELSE 0
        gain == IF total_days > 0 THEN total_gain ELSE 0
        days == IF total_days > 0 THEN total_days ELSE 1
        common == [average_daily_gain_kg |-> Round3(gain, days),
                   last_weight_kg        |-> Round2(last_weight),
                   last_weighting_date   |-> last_weighting_date]
    IN  IF is_sold(a) THEN
            LET days_on_farm == days_on_farm_until(SaleOf(a), p, now)
            IN  [average_daily_gain_kg |-> common.average_daily_gain_kg,
                 last_weight_kg |-> common.last_weight_kg,
                 last_weighting_date |-> common.last_weighting_date,
                 current_age_months |-> AgeMonths(p.entry_age, days_on_farm),
                 forecasted_current_weight_kg |->
                     forecasted_current_weight_kg(TRUE, last_weight, gain, days, 0),
                 status |-> "Sold",
                 days_on_farm |-> days_on_farm]
        ELSE IF is_dead(a) THEN
            LET days_on_farm == days_on_farm_until(DeathOf(a), p, now)
            IN  [average_daily_gain_kg |-> common.average_daily_gain_kg,
                 last_weight_kg |-> common.last_weight_kg,
                 last_weighting_date |-> common.last_weighting_date,
                 current_age_months |-> AgeMonths(p.entry_age, days_on_farm),
                 forecasted_current_weight_kg |->
                     forecasted_current_weight_kg(TRUE, last_weight, gain, days, 0),
                 status |-> "Dead"]
        ELSE
            LET days_on_farm == now - p.entry_date
                days_since_last_weight == now - last_weighting_date
            IN  [average_daily_gain_kg |-> common.average_daily_gain_kg,
                 last_weight_kg |-> common.last_weight_kg,
                 last_weighting_date |-> common.last_weighting_date,
                 current_age_months |-> AgeMonths(p.entry_age, days_on_farm),
                 forecasted_current_weight_kg |->
                     forecasted_current_weight_kg(FALSE, last_weight, gain, days,
                                                  days_since_last_weight),
                 status |-> "Active",
                 days_on_farm |-> days_on_farm,
                 current_location_name |-> current_location_name,
                 current_location_id |-> current_location_id,
                 current_sublocation_name |-> current_sublocation_name,
                 current_sublocation_id |-> current_sublocation_id,
                 current_diet_type |-> current_diet_type,
                 current_diet_intake |-> current_diet_intake]

\* today = date.today()
calculate_kpis(a) == calculate_kpis_at(a, today)

-----------------------------------------------------------------------------
(* Django: AnimalMasterRecordSerializer.get_calculated_kpis *)

get_calculated_kpis_at(a, now) ==
    LET p == purchase[a]
        lc == LatestByDateAndId(location_change, a)
        latest_change == location_change[Val(lc)]
        dl == LatestByDateAndId(diet_log, a)
        latest_diet == diet_log[Val(dl)]
        has_sub == lc # NULL /\ latest_change.sublocation_id # NULL
        sorted_weights == SortedByDate(RowsOf(weighting, a), weighting, FALSE)
        any == sorted_weights # << >>
        last_weighting_obj == weighting[sorted_weights[Len(sorted_weights)]]
        last_weight == IF any THEN last_weighting_obj.weight_kg ELSE p.entry_weight
        last_weighting_date == IF any THEN last_weighting_obj.date ELSE p.entry_date
        total_days == last_weighting_date - p.entry_date
        total_gain == last_weight - p.entry_weight
        gain == IF any /\ total_days > 0 THEN total_gain ELSE 0
        days == IF any /\ total_days > 0 THEN total_days ELSE 1
        sold == is_sold(a)
        dead == is_dead(a)
        days_on_farm == IF sold THEN days_on_farm_until(SaleOf(a), p, now)
                        ELSE IF dead THEN days_on_farm_until(DeathOf(a), p, now)
                        ELSE now - p.entry_date
    IN  [current_location_name |->
             IF lc # NULL THEN Some(LocationName(latest_change.location_id)) ELSE NULL,
         current_location_id |-> IF lc # NULL THEN Some(latest_change.location_id) ELSE NULL,
         current_sublocation_name |->
             IF has_sub THEN Some(SublocationName(Val(latest_change.sublocation_id))) ELSE NULL,
         current_sublocation_id |-> IF has_sub THEN latest_change.sublocation_id ELSE NULL,
         current_diet_type |-> IF dl # NULL THEN Some(latest_diet.diet_type) ELSE NULL,
         current_diet_intake |-> IF dl # NULL THEN latest_diet.daily_intake_percentage ELSE NULL,
         average_daily_gain_kg |-> Round3(gain, days),
         last_weight_kg |-> Round2(last_weight),
         last_weighting_date |-> last_weighting_date,
         current_age_months |-> AgeMonths(p.entry_age, days_on_farm),
         forecasted_current_weight_kg |->
             forecasted_current_weight_kg(sold \/ dead, last_weight, gain, days,
                                          now - last_weighting_date),
         status |-> IF sold THEN "Sold" ELSE IF dead THEN "Dead" ELSE "Active",
         days_on_farm |-> days_on_farm]

\* today = date.today()
get_calculated_kpis(a) == get_calculated_kpis_at(a, today)

\* the per-animal KPI record of the backend that serves the store
AnimalKpis(a) == IF backend = "flask" THEN calculate_kpis(a) ELSE get_calculated_kpis(a)

\* the same record for an evaluation on the date now
AnimalKpisAt(a, now) ==
    IF backend = "flask" THEN calculate_kpis_at(a, now) ELSE get_calculated_kpis_at(a, now)

-----------------------------------------------------------------------------
(* Summary endpoints: the per-animal KPI expressions evaluated in SQL.      *)
(* Their quotients are not rounded; a value is the fraction num / den.     *)

Rat(n, d) == [num |-> n, den |-> d]
RatIsZero(x) == x.num = 0
RatEqualsInt(x, n) == x.num = n * x.den

\* Django lots_summary, lot_detail_summary and active_stock_summary share
\* one set of annotations, evaluated for an animal without sale or death:
\*   gmd = total_gain / NullIf(days_for_gmd, 0.0)
\*   forecasted_weight = last_weight_kg + gmd * days_since_last_weight
\* with SQL's NULL propagating through the arithmetic
django_summary_kpis(a) ==
    LET p == purchase[a]
        lw == LatestByDateAndId(weighting, a)
        last_weighting_date_subq == IF lw = NULL THEN NULL ELSE Some(weighting[Val(lw)].date)
        last_weighting_date_or_entry ==
            IF lw = NULL THEN p.entry_date ELSE weighting[Val(lw)].date
        last_weight_kg == IF lw = NULL THEN p.entry_weight ELSE weighting[Val(lw)].weight_kg
        days_for_gmd ==
            IF last_weighting_date_subq = NULL THEN NULL
            ELSE Some(Val(last_weighting_date_subq) - p.entry_date)
        total_gain == last_weight_kg - p.entry_weight
        gmd == IF days_for_gmd = NULL \/ Val(days_for_gmd) = 0 THEN NULL
               ELSE Some(Rat(total_gain, Val(days_for_gmd)))
        days_since_last_weight == today - last_weighting_date_or_entry
    IN  [last_weight_kg |-> last_weight_kg,
         last_weighting_date |-> last_weighting_date_subq,
         average_daily_gain_kg |-> gmd,
         forecasted_current_weight_kg |->
             IF gmd = NULL THEN NULL
             ELSE Some(Rat(last_weight_kg * Val(gmd).den
                             + Val(gmd).num * days_since_last_weight, Val(gmd).den)),
         status |-> "Active"]

\* Flask get_active_stock_summary, get_lot_summary and get_lots_summary join
\* each active animal with its weightings on the animal's latest weighing
\* date: one row per such weighting, with
\*   gmd = coalesce(total_gain / nullif(total_days_for_gmd, 0), 0.0)
\* ('now' is taken at the start of the day)
flask_summary_rows(a) ==
    LET p == purchase[a]
        rows == {i \in Ids(weighting) : weighting[i].animal_id = a}
        last == {i \in rows : \A j \in rows : weighting[j].date <= weighting[i].date}
        row(i) ==
            LET W_last == weighting[i]
                total_days_for_gmd == W_last.date - p.entry_date
                total_gain == W_last.weight_kg - p.entry_weight
                gmd == IF total_days_for_gmd = 0 THEN Rat(0, 1)
                       ELSE Rat(total_gain, total_days_for_gmd)
                days_since_last_weight == today - W_last.date
            IN  [last_weight_kg |-> W_last.weight_kg,
                 last_weighting_date |-> Some(W_last.date),
                 average_daily_gain_kg |-> Some(gmd),
                 forecasted_current_weight_kg |->
                     Some(Rat(W_last.weight_kg * gmd.den + gmd.num * days_since_last_weight,
                              gmd.den)),
                 status |-> "Active"]
    IN  {row(i) : i \in last}

\* the per-animal rows of the summary endpoints of the serving backend
SummaryRows(a) ==
    IF is_sold(a) \/ is_dead(a) THEN {}
    ELSE IF backend = "flask" THEN flask_summary_rows(a)
    ELSE {django_summary_kpis(a)}

\* Flask get_location_summary, the animal list: an active animal resolved to
\* the location is joined with its weightings on its latest weighing date, and
\*   forecasted_weight = W_last.weight_kg + gmd * days_on_farm
\* ('now' is taken at the start of the day)
get_location_summary_animals(a) ==
    LET p == purchase[a]
        rows == {i \in Ids(weighting) : weighting[i].animal_id = a}
        last == {i \in rows : \A j \in rows : weighting[j].date <= weighting[i].date}
        days_on_farm == today - p.entry_date
        row(i) ==
            LET W_last == weighting[i]
                total_days_for_gmd == W_last.date - p.entry_date
                total_gain == W_last.weight_kg - p.entry_weight
                gmd == IF total_days_for_gmd = 0 THEN Rat(0, 1)
                       ELSE Rat(total_gain, total_days_for_gmd)
            IN  [last_weight_kg |-> W_last.weight_kg,
                 average_daily_gain_kg |-> Some(gmd),
                 forecasted_current_weight_kg |->
                     Some(Rat(W_last.weight_kg * gmd.den + gmd.num * days_on_farm, gmd.den))]
    IN  IF is_sold(a) \/ is_dead(a)
           \/ ~(\E i \in Ids(location_change) : location_change[i].animal_id = a)
        THEN {}
        ELSE {row(i) : i \in last}

\* Django animal_search, the annotations of one active animal:
\*   gmd = total_gain / NullIf(days_for_gmd, 0.0)
\*   forecasted_current_weight_kg = last_weight_kg + gmd * days_on_farm
\* (Now() is taken at the start of the day)
animal_search(a) ==
    LET p == purchase[a]
        lw == LatestByDateAndId(weighting, a)
        last_weight_kg == IF lw = NULL THEN NULL ELSE Some(weighting[Val(lw)].weight_kg)
        days_for_gmd == IF lw = NULL THEN NULL ELSE Some(weighting[Val(lw)].date - p.entry_date)
        days_on_farm == today - p.entry_date
        gmd == IF lw = NULL \/ Val(days_for_gmd) = 0 THEN NULL
               ELSE Some(Rat(Val(last_weight_kg) - p.entry_weight, Val(days_for_gmd)))
    IN  [last_weight_kg |-> last_weight_kg,
         last_weighting_date |-> IF lw = NULL THEN NULL ELSE Some(weighting[Val(lw)].date),
         average_daily_gain_kg |-> gmd,
         forecasted_current_weight_kg |->
             IF gmd = NULL THEN NULL
             ELSE Some(Rat(Val(last_weight_kg) * Val(gmd).den + Val(gmd).num * days_on_farm,
                           Val(gmd).den)),
         status |-> "Active"]

-----------------------------------------------------------------------------
(* Location KPIs: utils.calculate_location_kpis, Flask get_all_locations,   *)
(* Django get_kpis_for_locations with LocationSerializer.get_kpis.          *)
(* Location.area_hectares is a nullable float that no write handler reads;  *)
(* the KPI of a location is computed for the area its row holds.            *)

AreaValues == {NULL, Some(-1), Some(0), Some(2)}

\* Python's  area_hectares and area_hectares > 0
HasArea(area) == area # NULL /\ Val(area) > 0

RatAdd(x, y) == Rat(x.num * y.den + y.num * x.den, x.den * y.den)
RatIsPositive(x) == x.num * x.den > 0

\* what the occupants contribute: sets of records with the fields weight_kg
\* (grams) and forecasted_weight (a fraction of grams)
RECURSIVE TotalWeight(_)
TotalWeight(rows) ==
    IF rows = {} THEN 0
    ELSE LET r == CHOOSE r \in rows : TRUE
         IN  r.weight_kg + TotalWeight(rows \ {r})

RECURSIVE TotalForecast(_)
TotalForecast(rows) ==
    IF rows = {} THEN Rat(0, 1)
    ELSE LET r == CHOOSE r \in rows : TRUE
         IN  RatAdd(r.forecasted_weight, TotalForecast(rows \ {r}))

\* round((total / 450.0) / area_hectares, 2) in hundredths of UA/ha, for a
\* total in grams and an area > 0
CapacityRate(total, area) ==
    IF total.den > 0 THEN RoundDiv(total.num, total.den * 4500 * area)
    ELSE RoundDiv(-total.num, (-total.den) * 4500 * area)

ActiveAnimals(f) ==
    {a \in Animals : purchase[a].farm_id = f /\ ~is_sold(a) /\ ~is_dead(a)}

\* utils.calculate_location_kpis for one location of the list: the occupants
\* are the active animals whose first location change in descending date
\* order is in the location; the sums add the rounded per-animal KPIs
location_animals(f, l) ==
    {a \in ActiveAnimals(f) :
        /\ RowsOf(location_change, a) # << >>
        /\ location_change[latest_by_sorted(location_change, a)].location_id = l}

calculate_location_kpis(f, l, area) ==
    LET occupants == location_animals(f, l)
        rows == {[animal_id |-> a,
                  weight_kg |-> calculate_kpis(a).last_weight_kg,
                  forecasted_weight |->
                      Rat(Val(calculate_kpis(a).forecasted_current_weight_kg), 1)] :
                 a \in occupants}
    IN  IF HasArea(area)
        THEN [animal_count |-> Cardinality(occupants),
              capacity_rate_actual_ua_ha |->
                  Some(CapacityRate(Rat(TotalWeight(rows), 1), Val(area))),
              capacity_rate_forecasted_ua_ha |->
                  Some(CapacityRate(TotalForecast(rows), Val(area)))]
        ELSE [animal_count |-> Cardinality(occupants),
              capacity_rate_actual_ua_ha |-> NULL,
              capacity_rate_forecasted_ua_ha |-> NULL]

\* Flask get_all_locations, the rows of kpi_query that fall into one location:
\* an active animal joined with each of its location changes on its latest
\* location-change date and each of its weightings on its latest weighing
\* date ('now' is taken at the start of the day)
kpi_query(f, l) ==
    LET last_lc(a) ==
            {i \in Ids(location_change) :
                /\ location_change[i].animal_id = a /\ location_change[i].farm_id = f
                /\ \A j \in Ids(location_change) :
                      location_change[j].animal_id = a /\ location_change[j].farm_id = f
                          => location_change[j].date <= location_change[i].date}
        last_w(a) ==
            {i \in Ids(weighting) :
                /\ weighting[i].animal_id = a /\ weighting[i].farm_id = f
                /\ \A j \in Ids(weighting) :
                      weighting[j].animal_id = a /\ weighting[j].farm_id = f
                          => weighting[j].date <= weighting[i].date}
        row(a, lc, w) ==
            LET p == purchase[a]
                W_last == weighting[w]
                total_days_for_gmd == W_last.date - p.entry_date
                total_gain == W_last.weight_kg - p.entry_weight
                gmd == IF total_days_for_gmd = 0 THEN Rat(0, 1)
                       ELSE Rat(total_gain, total_days_for_gmd)
                days_since_last_weight == today - W_last.date
            IN  [animal_id |-> a, location_change_id |-> lc, weighting_id |-> w,
                 sublocation_id |-> location_change[lc].sublocation_id,
                 weight_kg |-> W_last.weight_kg,
                 forecasted_weight |->
                     Rat(W_last.weight_kg * gmd.den + gmd.num * days_since_last_weight,
                         gmd.den)]
    IN  UNION {UNION {{row(a, lc, w) : w \in last_w(a)} :
                      lc \in {i \in last_lc(a) : location_change[i].location_id = l}} :
               a \in ActiveAnimals(f)}

get_all_locations(f, l, area) ==
    LET rows == kpi_query(f, l)
        kpis == rows # {}
    IN  IF kpis /\ HasArea(area)
        THEN [animal_count |-> Cardinality(rows),
              capacity_rate_actual_ua_ha |->
                  Some(CapacityRate(Rat(TotalWeight(rows), 1), Val(area))),
              capacity_rate_forecasted_ua_ha |->
                  Some(CapacityRate(TotalForecast(rows), Val(area)))]
        ELSE [animal_count |-> IF kpis THEN Cardinality(rows) ELSE 0,
              capacity_rate_actual_ua_ha |-> NULL,
              capacity_rate_forecasted_ua_ha |-> NULL]

\* Django get_kpis_for_locations, what the loop adds for one location: every
\* active animal once, at the location of its newest location change by
\* (date, id), with its newest weighting by (date, id) or the entry weight
get_kpis_for_locations(f, l) ==
    LET current(a) == LatestByDateAndId(location_change, a)
        row(a) ==
            LET p == purchase[a]
                lw == LatestByDateAndId(weighting, a)
                last_w == IF lw = NULL THEN p.entry_weight ELSE weighting[Val(lw)].weight_kg
                last_w_date == IF lw = NULL THEN p.entry_date ELSE weighting[Val(lw)].date
                days_for_gmd == last_w_date - p.entry_date
                gain == last_w - p.entry_weight
                gmd == IF days_for_gmd > 0 THEN Rat(gain, days_for_gmd) ELSE Rat(0, 1)
                days_since_weigh == today - last_w_date
            IN  [animal_id |-> a,
                 weight_kg |-> last_w,
                 forecasted_weight |->
                     Rat(last_w * gmd.den + gmd.num * days_since_weigh, gmd.den)]
    IN  {row(a) : a \in {b \in ActiveAnimals(f) :
                            /\ current(b) # NULL
                            /\ location_change[Val(current(b))].location_id = l}}

\* Django LocationSerializer.get_kpis
LocationSerializer_get_kpis(f, l, area) ==
    LET rows == get_kpis_for_locations(f, l)
        total_actual == TotalWeight(rows)
        total_forecasted == TotalForecast(rows)
    IN  [animal_count |-> Cardinality(rows),
         capacity_rate_actual_ua_ha |->
             IF HasArea(area) /\ total_actual > 0
             THEN Some(CapacityRate(Rat(total_actual, 1), Val(area))) ELSE NULL,
         capacity_rate_forecasted_ua_ha |->
             IF HasArea(area) /\ RatIsPositive(total_forecasted)
             THEN Some(CapacityRate(total_forecasted, Val(area))) ELSE NULL]

\* the location list of the serving backend
LocationKpis(f, l, area) ==
    IF backend = "flask" THEN get_all_locations(f, l, area)
    ELSE LocationSerializer_get_kpis(f, l, area)

-----------------------------------------------------------------------------
(* Lot summary: Flask get_lots_summary and Django lots_summary, the columns  *)
(* animal_count and average_age_months of one lot's row                      *)

\* entry_age + days_on_farm / 30.44 of one animal, unrounded, in 1/3044 of a
\* hundredth of a month
age_months_expr(a) ==
    purchase[a].entry_age * 3044 + (today - purchase[a].entry_date) * 10000

RECURSIVE TotalAge(_)
TotalAge(rows) ==
    IF rows = {} THEN 0
    ELSE LET r == CHOOSE r \in rows : TRUE
         IN  r.age + TotalAge(rows \ {r})

\* count(Purchase.id) and avg(...) over the rows of a group; a lot without
\* rows has no group
LotRow(rows) ==
    IF rows = {} THEN NULL
    ELSE Some([animal_count |-> Cardinality(rows),
               average_age_months |-> Rat(TotalAge(rows), Cardinality(rows))])

\* Flask get_lots_summary: the active animals of the lot joined with their
\* weightings on the animal's latest weighing date
get_lots_summary(f, lot) ==
    LET last_w(a) ==
            {i \in Ids(weighting) :
                /\ weighting[i].animal_id = a /\ weighting[i].farm_id = f
                /\ \A j \in Ids(weighting) :
                      weighting[j].animal_id = a /\ weighting[j].farm_id = f
                          => weighting[j].date <= weighting[i].date}
    IN  LotRow(UNION {{[animal_id |-> a, weighting_id |-> w, age |-> age_months_expr(a)] :
                          w \in last_w(a)} :
                      a \in {b \in ActiveAnimals(f) : purchase[b].lot = lot}})

\* Django lots_summary: the active animals of the lot, annotated one by one
lots_summary(f, lot) ==
    LotRow({[animal_id |-> a, age |-> age_months_expr(a)] :
               a \in {b \in ActiveAnimals(f) : purchase[b].lot = lot}})

-----------------------------------------------------------------------------
(* Active-stock summary: Flask get_active_stock_summary and Django          *)
(* active_stock_summary.  Each runs two queries, the list of animals and    *)
(* the aggregate, as separate statements outside any transaction; another   *)
(* request can commit between them.                                         *)

\* the rows of a table for animal a on the animal's latest date in that table
RowsOnMaxDate(table, f, a) ==
    {i \in Ids(table) :
        /\ table[i].animal_id = a /\ table[i].farm_id = f
        /\ \A j \in Ids(table) :
              table[j].animal_id = a /\ table[j].farm_id = f => table[j].date <= table[i].date}

\* an outer join keeps the animal with a NULL partner when there is no row
OuterJoin(ids) == IF ids = {} THEN {NULL} ELSE {Some(i) : i \in ids}

\* Flask base_query: an active animal joined with its weightings on its latest
\* weighing date and, by outer joins, with its location changes and diet logs
\* on their latest dates
base_query(f) ==
    UNION {{[animal_id |-> a, weighting_id |-> w, location_change_id |-> lc, diet_log_id |-> dl] :
               w \in RowsOnMaxDate(weighting, f, a),
               lc \in OuterJoin(RowsOnMaxDate(location_change, f, a)),
               dl \in OuterJoin(RowsOnMaxDate(diet_log, f, a))} :
           a \in ActiveAnimals(f)}

\* Flask summary_query: count(Purchase.id) over the active animals joined with
\* their weightings on the latest weighing date
summary_query(f) ==
    Cardinality(UNION {{[animal_id |-> a, weighting_id |-> w] :
                           w \in RowsOnMaxDate(weighting, f, a)} :
                       a \in ActiveAnimals(f)})

\* Django animal_details_query: every active animal of the farm, annotated
animal_details_query(f) ==
    {[animal_id |-> a] : a \in ActiveAnimals(f)}

\* Django summary_kpis_result: Count('id') over the active animals of the farm
summary_kpis_result(f) == Cardinality(ActiveAnimals(f))

-----------------------------------------------------------------------------
(* Weight history: utils.calculate_weight_history_with_gmd and its port,   *)
(* AnimalMasterRecordSerializer.get_weight_history                          *)

UniqueEventsByDate(a) ==
    LET all == {[date |-> purchase[a].entry_date, weight_kg |-> purchase[a].entry_weight]}
               \cup {[date |-> weighting[i].date, weight_kg |-> weighting[i].weight_kg] :
                       i \in {j \in Ids(weighting) : weighting[j].animal_id = a}}
    IN  {e \in all : \A o \in all : o.date = e.date => e.weight_kg <= o.weight_kg}

\* the entry point and the weighings as a set of (date, weight) tuples
unique_events(a) ==
    {[date |-> purchase[a].entry_date, weight_kg |-> purchase[a].entry_weight]}
    \cup {[date |-> weighting[i].date, weight_kg |-> weighting[i].weight_kg] :
            i \in {j \in Ids(weighting) : weighting[j].animal_id = a}}

RECURSIVE sorted_events(_)
\* sorted(unique_events, key=date): the set is iterated in an order that the
\* hash seed decides, so points of one date may come out in any order
sorted_events(S) ==
    IF S = {} THEN {<< >>}
    ELSE UNION {{Append(s, x) : s \in sorted_events(S \ {x})} :
                  x \in {y \in S : \A z \in S : z.date <= y.date}}

GmdAccumulatedFromPrevious(events, i) ==
    LET base == IF i > 1 THEN events[i - 1] ELSE events[1]
        days_since_start == events[i].date - base.date
        gain_since_start == events[i].weight_kg - base.weight_kg
    IN  IF days_since_start > 0 THEN Round3(gain_since_start, days_since_start) ELSE 0

\* round(gmd_accumulated, 3)
gmd_accumulated(events, i) ==
    LET days_since_start == events[i].date - events[1].date
        gain_since_start == events[i].weight_kg - events[1].weight_kg
    IN  IF days_since_start > 0 THEN Round3(gain_since_start, days_since_start) ELSE 0

GmdPeriodFromFirst(events, i) ==
    IF i > 1
    THEN LET days_between == events[i].date - events[i - 1].date
             gain_between == events[i].weight_kg - events[1].weight_kg
         IN  IF days_between > 0 THEN Round3(gain_between, days_between) ELSE 0
    ELSE 0

\* round(gmd_period, 3)
gmd_period(events, i) ==
    IF i > 1
    THEN LET days_between == events[i].date - events[i - 1].date
             gain_between == events[i].weight_kg - events[i - 1].weight_kg
         IN  IF days_between > 0 THEN Round3(gain_between, days_between) ELSE 0
    ELSE 0

enriched_history(events) ==
    [i \in 1 .. Len(events) |->
        [date |-> events[i].date,
         weight_kg |-> Round2(events[i].weight_kg),
         gmd_accumulated_grams |-> gmd_accumulated(events, i),
         gmd_period_grams |-> gmd_period(events, i)]]

\* Every (sorted series, returned history) pair one call can produce
calculate_weight_history_with_gmd(a) ==
    {[sorted_events |-> s, history |-> enriched_history(s)] :
        s \in sorted_events(unique_events(a))}

get_weight_history(a) ==
    {[sorted_events |-> s, history |-> enriched_history(s)] :
        s \in sorted_events(unique_events(a))}

WeightHistory(a) ==
    IF backend = "flask" THEN calculate_weight_history_with_gmd(a) ELSE get_weight_history(a)

-----------------------------------------------------------------------------
(* Initial state: an empty database *)

Init ==
    /\ backend \in {"flask", "django"}
    /\ today \in EntryDates
    /\ purchase = << >>
    /\ weighting = << >>
    /\ location_change = << >>
    /\ diet_log = << >>
    /\ sale = << >>
    /\ death = << >>
    /\ location = Locations
    /\ sublocation = Sublocations
    /\ stock_request = NoStockRequest
    /\ pending = {}
    /\ sanitary_protocol = << >>
    /\ farm = InitialFarms
    /\ export_file = NULL
    /\ exported = NULL
    /\ import_response = NULL

\* the clock: date.today() moves on
Tick ==
    /\ today < MaxDate
    /\ today' = today + 1
    /\ UNCHANGED <<catalog, inflight, backend, sanitary_protocol, transfer, purchase, weighting, location_change, diet_log, sale, death>>

-----------------------------------------------------------------------------
(* Write requests.  A rejected request (4xx/5xx with rollback) leaves the   *)
(* store as it was, so only accepted requests are steps.                   *)

\* Flask add_purchase and Django purchase_create: Purchase + initial Weighting
\* + initial LocationChange + optional initial DietLog, in one transaction
CreatePurchase(f, tag, lot, ed, ew, age, loc, diet) ==
    /\ Len(purchase) < MaxAnimals
    /\ RowCount + (IF diet = NULL THEN 2 ELSE 3) <= MaxRows
    /\ f \in Farms
    /\ loc \in location /\ LocationFarm(loc) = f
    /\ \A p \in Animals :
         ~(purchase[p].ear_tag = tag /\ purchase[p].lot = lot /\ purchase[p].farm_id = f)
    /\ LET a == Len(purchase) + 1 IN
         /\ purchase' = Append(purchase,
                [farm_id |-> f, ear_tag |-> tag, lot |-> lot,
                 entry_date |-> ed, entry_weight |-> ew, entry_age |-> age])
         /\ weighting' = Append(weighting, Weighting(a, f, ed, ew))
         /\ location_change' = Append(location_change, LocationChange(a, f, ed, loc, NULL))
         /\ diet_log' = IF diet = NULL THEN diet_log
                        ELSE Append(diet_log,
                               DietLog(a, f, ed, Val(diet).diet_type, Val(diet).intake))
    /\ UNCHANGED <<catalog, inflight, backend, sanitary_protocol, transfer, today, sale, death>>

add_purchase(f, tag, lot, ed, ew, age, loc, diet) ==
    /\ backend = "flask"
    /\ CreatePurchase(f, tag, lot, ed, ew, age, loc, diet)

purchase_create(f, tag, lot, ed, ew, age, loc, diet) ==
    /\ backend = "django"
    /\ CreatePurchase(f, tag, lot, ed, ew, age, loc, diet)

\* a weighing recorded for whichever farm_id the URL carries
WeightingOfAnyFarm(f, a, d, w) ==
    /\ backend = "flask"
    /\ a \in Animals
    /\ RowCount < MaxRows
    /\ weighting' = Append(weighting, Weighting(a, f, d, w))
    /\ UNCHANGED <<catalog, inflight, backend, sanitary_protocol, transfer, today, purchase, location_change, diet_log, sale, death>>

\* Flask add_weighting
add_weighting(f, a, d, w) ==
    /\ backend = "flask"
    /\ a \in Animals /\ purchase[a].farm_id = f
    /\ RowCount < MaxRows
    /\ weighting' = Append(weighting, Weighting(a, f, d, w))
    /\ UNCHANGED <<catalog, inflight, backend, sanitary_protocol, transfer, today, purchase, location_change, diet_log, sale, death>>

\* Django weighting_create
weighting_create(f, a, d, w) ==
    /\ backend = "django"
    /\ a \in Animals /\ purchase[a].farm_id = f
    /\ RowCount < MaxRows
    /\ weighting' = Append(weighting, Weighting(a, f, d, w))
    /\ UNCHANGED <<catalog, inflight, backend, sanitary_protocol, transfer, today, purchase, location_change, diet_log, sale, death>>

\* a sale committed without its final weighting
SaleWithoutWeighting(f, a, d, w) ==
    /\ backend = "flask"
    /\ a \in Animals /\ purchase[a].farm_id = f
    /\ RowCount + 2 <= MaxRows
    /\ ~is_sold(a)
    /\ sale' = Append(sale, Sale(a, f, d))
    /\ UNCHANGED <<catalog, inflight, backend, sanitary_protocol, transfer, today, purchase, weighting, location_change, diet_log, death>>

\* Flask add_sale: final Weighting + Sale; the only rejection of a repeated
\* request is the unique constraint on Sale.animal_id (IntegrityError, rollback)
add_sale(f, a, d, w) ==
    /\ backend = "flask"
    /\ a \in Animals /\ purchase[a].farm_id = f
    /\ RowCount + 2 <= MaxRows
    /\ ~is_sold(a)
    /\ weighting' = Append(weighting, Weighting(a, f, d, w))
    /\ sale' = Append(sale, Sale(a, f, d))
    /\ UNCHANGED <<catalog, inflight, backend, sanitary_protocol, transfer, today, purchase, location_change, diet_log, death>>

\* Django sale_create: rejects an animal that already has a sale or a death
sale_create(f, a, d, w) ==
    /\ backend = "django"
    /\ a \in Animals /\ purchase[a].farm_id = f
    /\ RowCount + 2 <= MaxRows
    /\ ~is_sold(a)
    /\ ~is_dead(a)
    /\ weighting' = Append(weighting, Weighting(a, f, d, w))
    /\ sale' = Append(sale, Sale(a, f, d))
    /\ UNCHANGED <<catalog, inflight, backend, sanitary_protocol, transfer, today, purchase, location_change, diet_log, death>>

\* Flask add_death: rejects a sold animal; a second death hits the unique
\* constraint on Death.animal_id
add_death(f, a, d) ==
    /\ backend = "flask"
    /\ a \in Animals /\ purchase[a].farm_id = f
    /\ RowCount < MaxRows
    /\ ~is_sold(a)
    /\ ~is_dead(a)
    /\ death' = Append(death, Death(a, f, d))
    /\ UNCHANGED <<catalog, inflight, backend, sanitary_protocol, transfer, today, purchase, weighting, location_change, diet_log, sale>>

\* Django death_create
death_create(f, a, d) ==
    /\ backend = "django"
    /\ a \in Animals /\ purchase[a].farm_id = f
    /\ RowCount < MaxRows
    /\ ~is_sold(a)
    /\ ~is_dead(a)
    /\ death' = Append(death, Death(a, f, d))
    /\ UNCHANGED <<catalog, inflight, backend, sanitary_protocol, transfer, today, purchase, weighting, location_change, diet_log, sale>>

\* Flask add_location_change: the location is looked up on the farm, the
\* optional sublocation_id is stored as it was sent
add_location_change(f, a, d, loc, sl, optw) ==
    /\ backend = "flask"
    /\ a \in Animals /\ purchase[a].farm_id = f
    /\ loc \in location /\ LocationFarm(loc) = f
    /\ RowCount + (IF optw = NULL THEN 1 ELSE 2) <= MaxRows
    /\ location_change' = Append(location_change, LocationChange(a, f, d, loc, sl))
    /\ weighting' = WithOptionalWeight(a, f, d, optw)
    /\ UNCHANGED <<catalog, inflight, backend, sanitary_protocol, transfer, today, purchase, diet_log, sale, death>>

\* Django location_change_create, with LocationChangeCreateSerializer.validate:
\* a sublocation must be on the farm and have the location as its parent
location_change_create(f, a, d, loc, sl, optw) ==
    /\ backend = "django"
    /\ a \in Animals /\ purchase[a].farm_id = f
    /\ loc \in location /\ LocationFarm(loc) = f
    /\ sl # NULL => /\ Val(sl) \in sublocation
                    /\ SublocationFarm(Val(sl)) = f
                    /\ SublocationLocation(Val(sl)) = loc
    /\ RowCount + (IF optw = NULL THEN 1 ELSE 2) <= MaxRows
    /\ location_change' = Append(location_change, LocationChange(a, f, d, loc, sl))
    /\ weighting' = WithOptionalWeight(a, f, d, optw)
    /\ UNCHANGED <<catalog, inflight, backend, sanitary_protocol, transfer, today, purchase, diet_log, sale, death>>

\* Flask add_diet_log
add_diet_log(f, a, d, diet, optw) ==
    /\ backend = "flask"
    /\ a \in Animals /\ purchase[a].farm_id = f
    /\ RowCount + (IF optw = NULL THEN 1 ELSE 2) <= MaxRows
    /\ diet_log' = Append(diet_log, DietLog(a, f, d, diet.diet_type, diet.intake))
    /\ weighting' = WithOptionalWeight(a, f, d, optw)
    /\ UNCHANGED <<catalog, inflight, backend, sanitary_protocol, transfer, today, purchase, location_change, sale, death>>

\* Django diet_log_create
diet_log_create(f, a, d, diet, optw) ==
    /\ backend = "django"
    /\ a \in Animals /\ purchase[a].farm_id = f
    /\ RowCount + (IF optw = NULL THEN 1 ELSE 2) <= MaxRows
    /\ diet_log' = Append(diet_log, DietLog(a, f, d, diet.diet_type, diet.intake))
    /\ weighting' = WithOptionalWeight(a, f, d, optw)
    /\ UNCHANGED <<catalog, inflight, backend, sanitary_protocol, transfer, today, purchase, location_change, sale, death>>

\* the protocols of a batch, one row per entry of the list
BatchRows(a, f, ds) == [i \in 1 .. Len(ds) |-> SanitaryProtocol(a, f, ds[i], "vaccine")]

\* Flask add_sanitary_protocols_batch: the optional weight is dated by the
\* first protocol of the list; one commit for the whole batch
add_sanitary_protocols_batch(f, a, ds, optw) ==
    /\ backend = "flask"
    /\ a \in Animals /\ purchase[a].farm_id = f
    /\ Len(ds) > 0
    /\ RowCount + Len(ds) + (IF optw = NULL THEN 0 ELSE 1) <= MaxRows
    /\ weighting' = WithOptionalWeight(a, f, ds[1], optw)
    /\ sanitary_protocol' = sanitary_protocol \o BatchRows(a, f, ds)
    /\ UNCHANGED <<catalog, inflight, backend, transfer, today, purchase, location_change,
                   diet_log, sale, death>>

\* Django sanitary_protocol_create
sanitary_protocol_create(f, a, ds, optw) ==
    /\ backend = "django"
    /\ a \in Animals /\ purchase[a].farm_id = f
    /\ Len(ds) > 0
    /\ RowCount + Len(ds) + (IF optw = NULL THEN 0 ELSE 1) <= MaxRows
    /\ weighting' = WithOptionalWeight(a, f, ds[1], optw)
    /\ sanitary_protocol' = sanitary_protocol \o BatchRows(a, f, ds)
    /\ UNCHANGED <<catalog, inflight, backend, transfer, today, purchase, location_change,
                   diet_log, sale, death>>


-----------------------------------------------------------------------------
(* Specifications *)

PurchaseInputs == {NULL} \cup {Some(x) : x \in DietInputs}

\* the whole store: every write request of both backends, and the clock
Next ==
    \/ Tick
    \/ \E f \in Farms, tag \in EarTags, lot \in Lots, ed \in EntryDates,
          ew \in EntryWeights, age \in EntryAges, loc \in Locations,
          diet \in PurchaseInputs :
          \/ add_purchase(f, tag, lot, ed, ew, age, loc, diet)
          \/ purchase_create(f, tag, lot, ed, ew, age, loc, diet)
    \/ \E f \in Farms, a \in Animals, d \in Dates, w \in Weights :
          \/ add_weighting(f, a, d, w)
          \/ weighting_create(f, a, d, w)
          \/ add_sale(f, a, d, w)
          \/ sale_create(f, a, d, w)
    \/ \E f \in Farms, a \in Animals, d \in Dates :
          \/ add_death(f, a, d)
          \/ death_create(f, a, d)
    \/ \E f \in Farms, a \in Animals, d \in Dates, loc \in Locations, sl \in NoSublocation,
          optw \in OptWeights :
          \/ add_location_change(f, a, d, loc, sl, optw)
          \/ location_change_create(f, a, d, loc, sl, optw)
    \/ \E f \in Farms, a \in Animals, d \in Dates, diet \in DietInputs, optw \in OptWeights :
          \/ add_diet_log(f, a, d, diet, optw)
          \/ diet_log_create(f, a, d, diet, optw)

Spec == Init /\ [][Next]_vars

\* weighing requests only, over a wider range of dates: the input of the
\* growth calculations
NextGrowth ==
    \/ \E f \in Farms, tag \in EarTags, lot \in Lots, ed \in EntryDates,
          ew \in EntryWeights, age \in EntryAges, loc \in Locations,
          diet \in PurchaseInputs :
          \/ add_purchase(f, tag, lot, ed, ew, age, loc, diet)
          \/ purchase_create(f, tag, lot, ed, ew, age, loc, diet)
    \/ \E f \in Farms, a \in Animals, d \in HistoryDates, w \in Weights :
          \/ add_weighting(f, a, d, w)
          \/ weighting_create(f, a, d, w)

SpecGrowth == Init /\ [][NextGrowth]_vars

\* import_farms into an empty database: the file holds one farm with one
\* purchase, whose weightings and location_changes lists may be empty
ImportedEntryWeights == {200000, 200005}

InitImported ==
    /\ backend \in {"flask", "django"}
    /\ today \in EntryDates
    /\ \E tag \in EarTags, lot \in Lots, ed \in EntryDates, ew \in ImportedEntryWeights,
          age \in EntryAges :
          /\ purchase = <<[farm_id |-> 1, ear_tag |-> tag, lot |-> lot,
                           entry_date |-> ed, entry_weight |-> ew, entry_age |-> age]>>
          /\ weighting \in {<< >>, <<Weighting(1, 1, ed, ew)>>}
          /\ location_change \in {<< >>} \cup {<<LocationChange(1, 1, ed, l, NULL)>> : l \in Locations}
    /\ diet_log = << >>
    /\ sale = << >>
    /\ death = << >>
    /\ location = Locations
    /\ sublocation = Sublocations
    /\ stock_request = NoStockRequest
    /\ pending = {}
    /\ sanitary_protocol = << >>
    /\ farm = InitialFarms
    /\ export_file = NULL
    /\ exported = NULL
    /\ import_response = NULL

\* the imported animal then lives on: weighings, sale, death, and the clock
NextImported ==
    \/ Tick
    \/ \E f \in Farms, a \in Animals, d \in EntryDates, w \in ImportedEntryWeights :
          \/ add_weighting(f, a, d, w)
          \/ weighting_create(f, a, d, w)
    \/ \E f \in Farms, a \in Animals, d \in Dates, w \in EntryWeights :
          \/ add_sale(f, a, d, w)
          \/ sale_create(f, a, d, w)
    \/ \E f \in Farms, a \in Animals, d \in Dates :
          \/ add_death(f, a, d)
          \/ death_create(f, a, d)

SpecImported == InitImported /\ [][NextImported]_vars

\* the rows of the animal's location changes that carry its latest date
\* (the join on max(date) per animal of the bulk queries)
most_recent_changes(a) ==
    LET rows == RowsOf(location_change, a)
    IN  SelectSeq(rows, LAMBDA i : \A j \in 1 .. Len(rows) :
                            location_change[rows[j]].date <= location_change[i].date)

\* the purchases of the farm in id order
FarmAnimals(f) ==
    SelectSeq([i \in 1 .. Len(purchase) |-> i], LAMBDA a : purchase[a].farm_id = f)

\* one new location change per selected animal
BulkChanges(animals, f, d, loc, sl) ==
    [i \in 1 .. Len(animals) |-> LocationChange(animals[i], f, d, loc, Some(sl))]

\* Flask bulk_move_herd: every active animal with a latest-date location change
\* in the source sublocation moves to the destination sublocation
bulk_move_herd(f, d, source_id, dest_id) ==
    LET animals_to_move ==
            SelectSeq(FarmAnimals(f), LAMBDA a :
                /\ ~is_sold(a) /\ ~is_dead(a)
                /\ \E j \in 1 .. Len(most_recent_changes(a)) :
                      location_change[most_recent_changes(a)[j]].sublocation_id = Some(source_id))
    IN  /\ backend = "flask"
        /\ source_id \in sublocation /\ dest_id \in sublocation
        /\ SublocationFarm(source_id) = f /\ SublocationFarm(dest_id) = f
        /\ SublocationLocation(source_id) = SublocationLocation(dest_id)
        /\ animals_to_move # << >>
        /\ RowCount + Len(animals_to_move) <= MaxRows
        /\ location_change' = location_change \o
               BulkChanges(animals_to_move, f, d, SublocationLocation(dest_id), dest_id)
        /\ UNCHANGED <<catalog, inflight, backend, sanitary_protocol, transfer, today, purchase, weighting, diet_log, sale, death>>

\* Flask bulk_assign_sublocation: every active animal with a latest-date
\* location change in the parent location is assigned to the sublocation
bulk_assign_sublocation(f, location_id, d, dest_id) ==
    LET animals_to_assign ==
            SelectSeq(FarmAnimals(f), LAMBDA a :
                /\ ~is_sold(a) /\ ~is_dead(a)
                /\ \E j \in 1 .. Len(most_recent_changes(a)) :
                      location_change[most_recent_changes(a)[j]].location_id = location_id)
    IN  /\ backend = "flask"
        /\ location_id \in location /\ LocationFarm(location_id) = f
        /\ dest_id \in sublocation
        /\ SublocationLocation(dest_id) = location_id
        /\ animals_to_assign # << >>
        /\ RowCount + Len(animals_to_assign) <= MaxRows
        /\ location_change' = location_change \o
               BulkChanges(animals_to_assign, f, d, location_id, dest_id)
        /\ UNCHANGED <<catalog, inflight, backend, sanitary_protocol, transfer, today, purchase, weighting, diet_log, sale, death>>

\* Django bulk_assign_sublocation with BulkAssignSublocationSerializer.validate:
\* the current location is the newest location change by (date, id)
django_bulk_assign_sublocation(f, location_id, d, dest_id) ==
    LET animals_to_assign ==
            SelectSeq(FarmAnimals(f), LAMBDA a :
                /\ ~is_sold(a) /\ ~is_dead(a)
                /\ LatestByDateAndId(location_change, a) # NULL
                /\ location_change[Val(LatestByDateAndId(location_change, a))].location_id = location_id)
    IN  /\ backend = "django"
        /\ location_id \in location /\ LocationFarm(location_id) = f
        /\ dest_id \in sublocation
        /\ SublocationFarm(dest_id) = f
        /\ SublocationLocation(dest_id) = location_id
        /\ animals_to_assign # << >>
        /\ RowCount + Len(animals_to_assign) <= MaxRows
        /\ location_change' = location_change \o
               BulkChanges(animals_to_assign, f, d, location_id, dest_id)
        /\ UNCHANGED <<catalog, inflight, backend, sanitary_protocol, transfer, today, purchase, weighting, diet_log, sale, death>>

\* the herd on its locations: purchases, moves with or without a sublocation
\* or a weight, bulk moves and assignments, sales, deaths, and the clock
NextLocations ==
    \/ Tick
    \/ \E f \in Farms, tag \in EarTags, lot \in Lots, ed \in EntryDates,
          ew \in EntryWeights, age \in EntryAges, loc \in Locations :
          \/ add_purchase(f, tag, lot, ed, ew, age, loc, NULL)
          \/ purchase_create(f, tag, lot, ed, ew, age, loc, NULL)
    \/ \E f \in Farms, a \in Animals, d \in EntryDates, loc \in Locations,
          sl \in OptSublocations, optw \in OptWeights :
          /\ sl = NULL \/ optw = NULL
          /\ \/ add_location_change(f, a, d, loc, sl, optw)
             \/ location_change_create(f, a, d, loc, sl, optw)
    \/ \E f \in Farms, d \in BulkDates, source_id \in Sublocations, dest_id \in Sublocations :
          bulk_move_herd(f, d, source_id, dest_id)
    \/ \E f \in Farms, loc \in Locations, d \in BulkDates, dest_id \in Sublocations :
          \/ bulk_assign_sublocation(f, loc, d, dest_id)
          \/ django_bulk_assign_sublocation(f, loc, d, dest_id)
    \/ \E f \in Farms, a \in Animals, d \in EntryDates, w \in EntryWeights :
          \/ add_sale(f, a, d, w)
          \/ sale_create(f, a, d, w)
    \/ \E f \in Farms, a \in Animals, d \in EntryDates :
          \/ add_death(f, a, d)
          \/ death_create(f, a, d)

SpecLocations == Init /\ [][NextLocations]_vars

-----------------------------------------------------------------------------
(* The two queries of an active-stock request *)

\* Flask get_active_stock_summary, first statement: all_animals = base_query.all()
get_active_stock_summary_all_animals(f) ==
    /\ backend = "flask"
    /\ stock_request.pc \in {"idle", "done"}
    /\ stock_request' = [pc |-> "between", total_active_animals |-> 0,
                         animals |-> base_query(f)]
    /\ UNCHANGED <<catalog, pending, backend, sanitary_protocol, transfer, today, purchase, weighting, location_change,
                   diet_log, sale, death>>

\* Flask get_active_stock_summary, second statement: summary_query.first(),
\* then the response
get_active_stock_summary_summary_kpis(f) ==
    /\ backend = "flask"
    /\ stock_request.pc = "between"
    /\ stock_request' = [stock_request EXCEPT !.pc = "done",
                                              !.total_active_animals = summary_query(f)]
    /\ UNCHANGED <<catalog, pending, backend, sanitary_protocol, transfer, today, purchase, weighting, location_change,
                   diet_log, sale, death>>

\* Django active_stock_summary, first statement: active_animals_qs.aggregate(...)
active_stock_summary_summary_kpis(f) ==
    /\ backend = "django"
    /\ stock_request.pc \in {"idle", "done"}
    /\ stock_request' = [pc |-> "between", total_active_animals |-> summary_kpis_result(f),
                         animals |-> {}]
    /\ UNCHANGED <<catalog, pending, backend, sanitary_protocol, transfer, today, purchase, weighting, location_change,
                   diet_log, sale, death>>

\* Django active_stock_summary, second statement: list(animal_details_query),
\* then the response
active_stock_summary_all_animals(f) ==
    /\ backend = "django"
    /\ stock_request.pc = "between"
    /\ stock_request' = [stock_request EXCEPT !.pc = "done",
                                              !.animals = animal_details_query(f)]
    /\ UNCHANGED <<catalog, pending, backend, sanitary_protocol, transfer, today, purchase, weighting, location_change,
                   diet_log, sale, death>>

\* active-stock requests served while purchases, weighings, sales and deaths
\* are recorded
NextStock ==
    \/ \E f \in Farms, tag \in EarTags, lot \in Lots, ed \in EntryDates,
          ew \in EntryWeights, age \in EntryAges, loc \in Locations :
          \/ add_purchase(f, tag, lot, ed, ew, age, loc, NULL)
          \/ purchase_create(f, tag, lot, ed, ew, age, loc, NULL)
    \/ \E f \in Farms, a \in Animals, d \in EntryDates, w \in Weights :
          \/ add_weighting(f, a, d, w)
          \/ weighting_create(f, a, d, w)
    \/ \E f \in Farms, a \in Animals, d \in EntryDates, w \in EntryWeights :
          \/ add_sale(f, a, d, w)
          \/ sale_create(f, a, d, w)
    \/ \E f \in Farms, a \in Animals, d \in EntryDates :
          \/ add_death(f, a, d)
          \/ death_create(f, a, d)
    \/ \E f \in Farms :
          \/ get_active_stock_summary_all_animals(f)
          \/ get_active_stock_summary_summary_kpis(f)
          \/ active_stock_summary_summary_kpis(f)
          \/ active_stock_summary_all_animals(f)

SpecStock == Init /\ [][NextStock]_vars

-----------------------------------------------------------------------------
(* Django: deleting a location or a sublocation.  The foreign keys of       *)
(* LocationChange to Location and Sublocation are on_delete=CASCADE; a      *)
(* deleted row leaves its id unused.                                         *)

DeletedRow ==
    [animal_id |-> 0, farm_id |-> 0, date |-> 0, location_id |-> 0, sublocation_id |-> NULL]

\* the table without the rows that reference one of the locations or
\* sublocations
CascadeDelete(table, locs, subs) ==
    [i \in 1 .. Len(table) |->
        IF \/ table[i].location_id \in locs
           \/ table[i].sublocation_id # NULL /\ Val(table[i].sublocation_id) \in subs
        THEN DeletedRow ELSE table[i]]

\* Django location_detail, DELETE: location.delete()
location_detail_delete(f, location_id) ==
    LET subs == {sl \in sublocation : SublocationLocation(sl) = location_id}
    IN  /\ backend = "django"
        /\ location_id \in location /\ LocationFarm(location_id) = f
        /\ location' = location \ {location_id}
        /\ sublocation' = sublocation \ subs
        /\ location_change' = CascadeDelete(location_change, {location_id}, subs)
        /\ UNCHANGED <<inflight, backend, sanitary_protocol, transfer, today, purchase, weighting, diet_log, sale, death>>

\* Django sublocation_detail, DELETE: sublocation.delete()
sublocation_detail_delete(f, sublocation_id) ==
    /\ backend = "django"
    /\ sublocation_id \in sublocation /\ SublocationFarm(sublocation_id) = f
    /\ sublocation' = sublocation \ {sublocation_id}
    /\ location_change' = CascadeDelete(location_change, {}, {sublocation_id})
    /\ UNCHANGED <<location, inflight, backend, sanitary_protocol, transfer, today, purchase, weighting, diet_log, sale,
                   death>>

\* animals are bought and moved while locations and sublocations are deleted
NextCatalog ==
    \/ \E f \in Farms, tag \in EarTags, lot \in Lots, ed \in EntryDates,
          ew \in EntryWeights, age \in EntryAges, loc \in Locations :
          \/ add_purchase(f, tag, lot, ed, ew, age, loc, NULL)
          \/ purchase_create(f, tag, lot, ed, ew, age, loc, NULL)
    \/ \E f \in Farms, a \in Animals, d \in EntryDates, loc \in Locations,
          sl \in OptSublocations :
          \/ add_location_change(f, a, d, loc, sl, NULL)
          \/ location_change_create(f, a, d, loc, sl, NULL)
    \/ \E f \in Farms, loc \in Locations : location_detail_delete(f, loc)
    \/ \E f \in Farms, sl \in Sublocations : sublocation_detail_delete(f, sl)

SpecCatalog == Init /\ [][NextCatalog]_vars

-----------------------------------------------------------------------------
(* Django sale_create and death_create served concurrently: each request    *)
(* reads hasattr(animal, 'sale') / hasattr(animal, 'death') first and       *)
(* inserts later; requests of other workers commit in between.              *)

\* sale_create up to the business-logic checks
sale_create_check(f, a, d, w) ==
    /\ backend = "django"
    /\ a \in Animals /\ purchase[a].farm_id = f
    /\ ~is_sold(a)
    /\ ~is_dead(a)
    /\ ~(\E r \in pending : r.op = "sale")
    /\ pending' = pending \cup {[op |-> "sale", farm_id |-> f, animal_id |-> a,
                                 date |-> d, weight_kg |-> w]}
    /\ UNCHANGED <<catalog, stock_request, backend, sanitary_protocol, transfer, today, purchase, weighting,
                   location_change, diet_log, sale, death>>

\* sale_create from transaction.atomic() on: the final Weighting and the Sale,
\* rolled back together when Sale.animal (OneToOneField) is taken
sale_create_insert(r) ==
    /\ backend = "django"
    /\ r \in pending /\ r.op = "sale"
    /\ is_sold(r.animal_id) \/ RowCount + 2 <= MaxRows
    /\ pending' = pending \ {r}
    /\ IF is_sold(r.animal_id)
       THEN UNCHANGED <<weighting, sale>>
       ELSE /\ weighting' = Append(weighting,
                                   Weighting(r.animal_id, r.farm_id, r.date, r.weight_kg))
            /\ sale' = Append(sale, Sale(r.animal_id, r.farm_id, r.date))
    /\ UNCHANGED <<catalog, stock_request, backend, sanitary_protocol, transfer, today, purchase, location_change,
                   diet_log, death>>

\* death_create up to the business-logic checks
death_create_check(f, a, d) ==
    /\ backend = "django"
    /\ a \in Animals /\ purchase[a].farm_id = f
    /\ ~is_sold(a)
    /\ ~is_dead(a)
    /\ ~(\E r \in pending : r.op = "death")
    /\ pending' = pending \cup {[op |-> "death", farm_id |-> f, animal_id |-> a, date |-> d]}
    /\ UNCHANGED <<catalog, stock_request, backend, sanitary_protocol, transfer, today, purchase, weighting,
                   location_change, diet_log, sale, death>>

\* death_create from serializer.save on: the Death, refused when Death.animal
\* (OneToOneField) is taken
death_create_insert(r) ==
    /\ backend = "django"
    /\ r \in pending /\ r.op = "death"
    /\ is_dead(r.animal_id) \/ RowCount + 1 <= MaxRows
    /\ pending' = pending \ {r}
    /\ IF is_dead(r.animal_id)
       THEN UNCHANGED death
       ELSE death' = Append(death, Death(r.animal_id, r.farm_id, r.date))
    /\ UNCHANGED <<catalog, stock_request, backend, sanitary_protocol, transfer, today, purchase, weighting,
                   location_change, diet_log, sale>>

\* Django workers recording purchases, weighings, sales and deaths side by side
NextWorkers ==
    \/ \E f \in Farms, tag \in EarTags, lot \in Lots, ed \in EntryDates,
          ew \in EntryWeights, age \in EntryAges, loc \in Locations :
          purchase_create(f, tag, lot, ed, ew, age, loc, NULL)
    \/ \E f \in Farms, a \in Animals, d \in Dates, w \in EntryWeights :
          weighting_create(f, a, d, w)
    \/ \E f \in Farms, a \in Animals, d \in Dates, w \in EntryWeights :
          sale_create_check(f, a, d, w)
    \/ \E r \in pending : sale_create_insert(r)
    \/ \E f \in Farms, a \in Animals, d \in Dates : death_create_check(f, a, d)
    \/ \E r \in pending : death_create_insert(r)

SpecWorkers == Init /\ [][NextWorkers]_vars

-----------------------------------------------------------------------------
(* Requests addressed to the farm of the store and to another farm *)

NextFarms ==
    \/ \E f \in RequestFarms, tag \in EarTags, lot \in Lots, ed \in EntryDates,
          ew \in EntryWeights, age \in EntryAges, loc \in Locations :
          \/ add_purchase(f, tag, lot, ed, ew, age, loc, NULL)
          \/ purchase_create(f, tag, lot, ed, ew, age, loc, NULL)
    \/ \E f \in RequestFarms, a \in Animals, d \in Dates, w \in EntryWeights :
          \/ add_weighting(f, a, d, w)
          \/ weighting_create(f, a, d, w)
    \/ \E f \in RequestFarms, a \in Animals, d \in EntryDates, w \in EntryWeights :
          \/ add_sale(f, a, d, w)
          \/ sale_create(f, a, d, w)
    \/ \E f \in RequestFarms, a \in Animals, d \in EntryDates :
          \/ add_death(f, a, d)
          \/ death_create(f, a, d)
    \/ \E f \in RequestFarms, a \in Animals, d \in EntryDates, loc \in Locations,
          sl \in OptSublocations, optw \in OptWeights :
          /\ sl = NULL \/ optw = NULL
          /\ \/ add_location_change(f, a, d, loc, sl, optw)
             \/ location_change_create(f, a, d, loc, sl, optw)
    \/ \E f \in RequestFarms, a \in Animals, d \in EntryDates, diet \in DietInputs,
          optw \in OptWeights :
          \/ add_diet_log(f, a, d, diet, optw)
          \/ diet_log_create(f, a, d, diet, optw)
    \/ \E f \in RequestFarms, a \in Animals, ds \in ProtocolBatches, optw \in OptWeights :
          \/ add_sanitary_protocols_batch(f, a, ds, optw)
          \/ sanitary_protocol_create(f, a, ds, optw)
    \/ \E f \in RequestFarms, d \in BulkDates, source_id \in Sublocations,
          dest_id \in Sublocations :
          bulk_move_herd(f, d, source_id, dest_id)
    \/ \E f \in RequestFarms, loc \in Locations, d \in BulkDates, dest_id \in Sublocations :
          \/ bulk_assign_sublocation(f, loc, d, dest_id)
          \/ django_bulk_assign_sublocation(f, loc, d, dest_id)

SpecFarms == Init /\ [][NextFarms]_vars

-----------------------------------------------------------------------------
(* Export and import of farms (Flask) *)

\* date.isoformat() and datetime.fromisoformat(...).date()
isoformat(d) == <<"iso", d>>
fromisoformat(str) == str[2]

\* the elements of a set of ids in ascending order
AscendingSeq(S) ==
    CHOOSE q \in [1 .. Cardinality(S) -> S] : \A i, j \in 1 .. Cardinality(S) : i < j => q[i] < q[j]

\* the id that the next INSERT into a table with these ids gets
NextId(ids) == IF ids = {} THEN 1 ELSE (CHOOSE m \in ids : \A x \in ids : x <= m) + 1

Farm_to_dict(fr) == [id |-> fr.id, name |-> fr.name]

Sublocation_to_dict(sl) == [id |-> sl, location_id |-> SublocationLocation(sl)]

Location_sublocations(l) ==
    AscendingSeq({sl \in sublocation : SublocationLocation(sl) = l})

Location_to_dict(l) ==
    [id |-> l, farm_id |-> LocationFarm(l),
     sublocations |-> [k \in DOMAIN Location_sublocations(l) |->
                          Sublocation_to_dict(Location_sublocations(l)[k])]]

Purchase_to_dict(a) ==
    [id |-> a, ear_tag |-> purchase[a].ear_tag, lot |-> purchase[a].lot,
     entry_date |-> isoformat(purchase[a].entry_date),
     entry_weight |-> purchase[a].entry_weight, entry_age |-> purchase[a].entry_age,
     farm_id |-> purchase[a].farm_id]

Weighting_to_dict(i) ==
    [id |-> i, date |-> isoformat(weighting[i].date), weight_kg |-> weighting[i].weight_kg,
     animal_id |-> weighting[i].animal_id, farm_id |-> weighting[i].farm_id]

SanitaryProtocol_to_dict(i) ==
    [protocol_id |-> i, date |-> isoformat(sanitary_protocol[i].date),
     protocol_type |-> sanitary_protocol[i].protocol_type,
     animal_id |-> sanitary_protocol[i].animal_id, farm_id |-> sanitary_protocol[i].farm_id]

\* LocationChange.to_dict: id, date, location and animal; no sublocation_id
LocationChange_to_dict(i) ==
    [location_change_id |-> i, date |-> isoformat(location_change[i].date),
     location_id |-> location_change[i].location_id,
     animal_id |-> location_change[i].animal_id, farm_id |-> location_change[i].farm_id]

DietLog_to_dict(i) ==
    [diet_log_id |-> i, date |-> isoformat(diet_log[i].date),
     diet_type |-> diet_log[i].diet_type,
     daily_intake_percentage |-> diet_log[i].daily_intake_percentage,
     animal_id |-> diet_log[i].animal_id, farm_id |-> diet_log[i].farm_id]

Sale_to_dict(i) ==
    [sale_id |-> i, animal_id |-> sale[i].animal_id, exit_date |-> isoformat(sale[i].date)]

Death_to_dict(i) ==
    [death_id |-> i, date |-> isoformat(death[i].date),
     animal_id |-> death[i].animal_id, farm_id |-> death[i].farm_id]

\* export_farms, the entry of one animal with all its events
ExportPurchase(a) ==
    Purchase_to_dict(a) @@
    [weightings |-> [k \in DOMAIN RowsOf(weighting, a) |->
                        Weighting_to_dict(RowsOf(weighting, a)[k])],
     protocols |-> [k \in DOMAIN RowsOf(sanitary_protocol, a) |->
                       SanitaryProtocol_to_dict(RowsOf(sanitary_protocol, a)[k])],
     location_changes |-> [k \in DOMAIN RowsOf(location_change, a) |->
                              LocationChange_to_dict(RowsOf(location_change, a)[k])],
     diet_logs |-> [k \in DOMAIN RowsOf(diet_log, a) |->
                       DietLog_to_dict(RowsOf(diet_log, a)[k])],
     sale |-> IF RowsOf(sale, a) = << >> THEN NULL
              ELSE Some(Sale_to_dict(RowsOf(sale, a)[1])),
     death |-> IF RowsOf(death, a) = << >> THEN NULL
               ELSE Some(Death_to_dict(RowsOf(death, a)[1]))]

\* export_farms, the entry of one farm
ExportFarm(fr) ==
    LET locs == AscendingSeq({l \in location : LocationFarm(l) = fr.id})
        animals == FarmAnimals(fr.id)
    IN  Farm_to_dict(fr) @@
        [locations |-> [k \in DOMAIN locs |-> Location_to_dict(locs[k])],
         purchases |-> [k \in DOMAIN animals |-> ExportPurchase(animals[k])]]

\* the rows of the store
Store ==
    [farm |-> farm, location |-> location, sublocation |-> sublocation,
     purchase |-> purchase, weighting |-> weighting, sanitary_protocol |-> sanitary_protocol,
     location_change |-> location_change, diet_log |-> diet_log, sale |-> sale,
     death |-> death]

\* Flask export_farms: 404 when no farm has one of the ids, else the file
export_farms(farm_ids) ==
    /\ backend = "flask"
    /\ \E fr \in farm : fr.id \in farm_ids
    /\ export_file' = Some([export_format_version |-> "1.0",
                            farms |-> LET ids == AscendingSeq({fr.id : fr \in {x \in farm : x.id \in farm_ids}})
                                      IN  [k \in DOMAIN ids |->
                                              ExportFarm(CHOOSE fr \in farm : fr.id = ids[k])]])
    /\ exported' = Some(Store)
    /\ UNCHANGED <<catalog, inflight, backend, sanitary_protocol, farm, import_response, today,
                   purchase, weighting, location_change, diet_log, sale, death>>

\* the rows of a table that do not belong to the farm
WithoutFarm(table, f) == SelectSeq(table, LAMBDA r : r.farm_id # f)

\* Flask delete_farm: the farm and, by cascade, every row that belongs to it
delete_farm(f) ==
    /\ backend = "flask"
    /\ \E fr \in farm : fr.id = f
    /\ farm' = {fr \in farm : fr.id # f}
    /\ location' = {l \in location : LocationFarm(l) # f}
    /\ sublocation' = {sl \in sublocation : SublocationFarm(sl) # f}
    /\ purchase' = WithoutFarm(purchase, f)
    /\ weighting' = WithoutFarm(weighting, f)
    /\ sanitary_protocol' = WithoutFarm(sanitary_protocol, f)
    /\ location_change' = WithoutFarm(location_change, f)
    /\ diet_log' = WithoutFarm(diet_log, f)
    /\ sale' = WithoutFarm(sale, f)
    /\ death' = WithoutFarm(death, f)
    /\ UNCHANGED <<inflight, backend, export_file, exported, import_response, today>>

RECURSIVE Flatten(_)
Flatten(seqs) == IF seqs = << >> THEN << >> ELSE Head(seqs) \o Flatten(Tail(seqs))

\* import_farms: a key that the code reads with [] and the entry does not
\* have raises KeyError
HasKeys(json, keys) == keys \subseteq DOMAIN json

\* import_farms reads lc_json['location_id'] and lc_json['sublocation_id'],
\* sale_json['exit_date'] and death_json['date'] of every entry
ImportRaises(farm_json) ==
    \E k \in DOMAIN farm_json.purchases :
        LET p_json == farm_json.purchases[k]
        IN  \/ \E j \in DOMAIN p_json.location_changes :
                  ~HasKeys(p_json.location_changes[j], {"date", "location_id", "sublocation_id"})
            \/ \E j \in DOMAIN p_json.weightings :
                  ~HasKeys(p_json.weightings[j], {"date", "weight_kg"})
            \/ \E j \in DOMAIN p_json.diet_logs :
                  ~HasKeys(p_json.diet_logs[j], {"date", "diet_type"})
            \/ \E j \in DOMAIN p_json.protocols :
                  ~HasKeys(p_json.protocols[j], {"date", "protocol_type"})
            \/ p_json.sale # NULL /\ ~HasKeys(Val(p_json.sale), {"exit_date"})
            \/ p_json.death # NULL /\ ~HasKeys(Val(p_json.death), {"date"})

\* import_farms, the rows that the entries of one farm become: new ids for
\* the farm, its locations, sublocations and animals, and the events of each
\* animal under the new ids
ImportedRows(farm_json) ==
    LET new_farm == NextId({fr.id : fr \in farm})
        first_loc == NextId(location)
        location_id_map == [k \in DOMAIN farm_json.locations |-> first_loc + k - 1]
        OldLoc(old) == {k \in DOMAIN farm_json.locations : farm_json.locations[k].id = old}
        NewLoc(old) == IF OldLoc(old) = {} THEN NULL
                       ELSE Some(location_id_map[CHOOSE k \in OldLoc(old) : TRUE])
        subs == Flatten([k \in DOMAIN farm_json.locations |->
                            farm_json.locations[k].sublocations])
        first_sub == NextId(sublocation)
        OldSub(old) == {k \in DOMAIN subs : subs[k].id = old}
        NewSub(old) == IF old = NULL \/ OldSub(Val(old)) = {} THEN NULL
                       ELSE Some(first_sub + (CHOOSE k \in OldSub(Val(old)) : TRUE) - 1)
        NewAnimal(k) == Len(purchase) + k
        P(k) == farm_json.purchases[k]
        PerAnimal(rows(_)) == Flatten([k \in DOMAIN farm_json.purchases |-> rows(k)])
        Ws(k) == [j \in DOMAIN P(k).weightings |->
                     Weighting(NewAnimal(k), new_farm, fromisoformat(P(k).weightings[j].date),
                               P(k).weightings[j].weight_kg)]
        Sps(k) == [j \in DOMAIN P(k).protocols |->
                      SanitaryProtocol(NewAnimal(k), new_farm,
                                       fromisoformat(P(k).protocols[j].date),
                                       P(k).protocols[j].protocol_type)]
        Lcs(k) == LET kept == SelectSeq(P(k).location_changes,
                                        LAMBDA lc : NewLoc(lc.location_id) # NULL)
                  IN  [j \in DOMAIN kept |->
                          LocationChange(NewAnimal(k), new_farm, fromisoformat(kept[j].date),
                                         Val(NewLoc(kept[j].location_id)),
                                         NewSub(kept[j].sublocation_id))]
        Dls(k) == [j \in DOMAIN P(k).diet_logs |->
                      DietLog(NewAnimal(k), new_farm, fromisoformat(P(k).diet_logs[j].date),
                              P(k).diet_logs[j].diet_type,
                              P(k).diet_logs[j].daily_intake_percentage)]
        Ss(k) == IF P(k).sale = NULL THEN << >>
                 ELSE <<Sale(NewAnimal(k), new_farm, fromisoformat(Val(P(k).sale).exit_date))>>
        Ds(k) == IF P(k).death = NULL THEN << >>
                 ELSE <<Death(NewAnimal(k), new_farm, fromisoformat(Val(P(k).death).date))>>
    IN  [farm |-> {[id |-> new_farm, name |-> farm_json.name]},
         location |-> {location_id_map[k] : k \in DOMAIN farm_json.locations},
         sublocation |-> {first_sub + k - 1 : k \in DOMAIN subs},
         purchase |-> [k \in DOMAIN farm_json.purchases |->
                          [farm_id |-> new_farm, ear_tag |-> P(k).ear_tag, lot |-> P(k).lot,
                           entry_date |-> fromisoformat(P(k).entry_date),
                           entry_weight |-> P(k).entry_weight,
                           entry_age |-> P(k).entry_age]],
         weighting |-> PerAnimal(Ws), sanitary_protocol |-> PerAnimal(Sps),
         location_change |-> PerAnimal(Lcs), diet_log |-> PerAnimal(Dls),
         sale |-> PerAnimal(Ss), death |-> PerAnimal(Ds)]

\* Flask import_farms of a file with one farm: a farm whose name exists is
\* skipped (200); an exception rolls the session back (500); else one commit
\* of everything (201)
import_farms(file) ==
    /\ backend = "flask"
    /\ import_response = NULL
    /\ Len(file.farms) = 1
    /\ LET farm_json == file.farms[1]
           new == ImportedRows(farm_json)
       IN  IF \E fr \in farm : fr.name = farm_json.name
           THEN /\ import_response' = Some(200)
                /\ UNCHANGED <<farm, catalog, purchase, weighting, sanitary_protocol,
                               location_change, diet_log, sale, death>>
           ELSE IF ImportRaises(farm_json)
           THEN /\ import_response' = Some(500)
                /\ UNCHANGED <<farm, catalog, purchase, weighting, sanitary_protocol,
                               location_change, diet_log, sale, death>>
           ELSE /\ import_response' = Some(201)
                /\ farm' = farm \cup new.farm
                /\ location' = location \cup new.location
                /\ sublocation' = sublocation \cup new.sublocation
                /\ purchase' = purchase \o new.purchase
                /\ weighting' = weighting \o new.weighting
                /\ sanitary_protocol' = sanitary_protocol \o new.sanitary_protocol
                /\ location_change' = location_change \o new.location_change
                /\ diet_log' = diet_log \o new.diet_log
                /\ sale' = sale \o new.sale
                /\ death' = death \o new.death
    /\ UNCHANGED <<inflight, backend, export_file, exported, today>>

InitFlask == Init /\ backend = "flask"

\* a Flask store that is filled, exported, emptied by delete_farm and
\* imported into
NextTransfer ==
    \/ \E f \in Farms, tag \in EarTags, lot \in Lots, ed \in EntryDates,
          ew \in EntryWeights, age \in EntryAges, loc \in Locations :
          add_purchase(f, tag, lot, ed, ew, age, loc, NULL)
    \/ \E f \in Farms, a \in Animals, d \in EntryDates, w \in EntryWeights :
          add_weighting(f, a, d, w)
    \/ \E f \in Farms, a \in Animals, d \in EntryDates, loc \in Locations,
          sl \in OptSublocations :
          add_location_change(f, a, d, loc, sl, NULL)
    \/ \E f \in Farms, a \in Animals, d \in EntryDates, diet \in DietInputs :
          add_diet_log(f, a, d, diet, NULL)
    \/ \E f \in Farms, a \in Animals, d \in EntryDates, w \in EntryWeights :
          add_sale(f, a, d, w)
    \/ \E f \in Farms, a \in Animals, d \in EntryDates :
          add_death(f, a, d)
    \/ \E ids \in SUBSET Farms : export_farms(ids)
    \/ \E f \in Farms : delete_farm(f)
    \/ export_file # NULL /\ import_farms(Val(export_file))

SpecTransfer == InitFlask /\ [][NextTransfer]_vars

TypeOK ==
    /\ backend \in {"flask", "django"}
    /\ today \in HistoryDates
    /\ Len(purchase) <= MaxAnimals
    /\ RowCount <= MaxRows
    /\ location \subseteq Locations
    /\ sublocation \subseteq Sublocations
    /\ stock_request.pc \in {"idle", "between", "done"}
    /\ \A r \in pending : r.op \in {"sale", "death"}

-----------------------------------------------------------------------------
(* Properties *)

TerminalEvents(a) ==
    Cardinality({i \in Ids(sale) : sale[i].animal_id = a})
    + Cardinality({i \in Ids(death) : death[i].animal_id = a})

\* C1: after any sequence of sale and death requests an animal has at most
\* one terminal event: never a Sale and a Death together, never two of a kind
C1_AtMostOneTerminalEvent == \A a \in Animals : TerminalEvents(a) <= 1

\* C2: the per-animal KPIs report one status out of Active, Sold, Dead, and
\* the forecast is null exactly when the status is not Active
C2_StatusAndForecast ==
    \A a \in Animals :
        LET k == AnimalKpis(a)
        IN  /\ k.status \in {"Active", "Sold", "Dead"}
            /\ (k.forecasted_current_weight_kg = NULL) <=> (k.status # "Active")

C2_Witness ==
    \E a \in Animals :
        /\ is_sold(a)
        /\ AnimalKpis(a).status = "Sold"
        /\ AnimalKpis(a).forecasted_current_weight_kg = NULL

\* C3: once the computed status of an animal is Sold or Dead, no later
\* request changes it again
C3_StatusIsFinal ==
    [][\A a \in Animals :
          AnimalKpis(a).status \in {"Sold", "Dead"}
              => AnimalKpis(a)'.status = AnimalKpis(a).status]_vars

\* rows of a table that belong to animal a
Rows(table, a) == {i \in Ids(table) : table[i].animal_id = a}

\* the row with the greatest date and, among those, the greatest id
NewestRow(table, rows) ==
    CHOOSE i \in rows : \A j \in rows :
        table[j].date < table[i].date \/ (table[j].date = table[i].date /\ j <= i)

\* C4: the current location and the current diet of an active animal are
\* those of the event with the maximum date, the highest id winning a tie
C4_LatestEventHighestIdWins ==
    \A a \in Animals :
        LET k == AnimalKpis(a)
            lrows == Rows(location_change, a)
            drows == Rows(diet_log, a)
        IN  k.status = "Active" =>
              /\ lrows # {} =>
                   k.current_location_id
                     = Some(location_change[NewestRow(location_change, lrows)].location_id)
              /\ drows # {} =>
                   k.current_diet_type
                     = Some(diet_log[NewestRow(diet_log, drows)].diet_type)

\* rows dated on or before the evaluation date that no other such row postdates
LatestUpToToday(table, a) ==
    LET past == {i \in Rows(table, a) : table[i].date <= today}
    IN  {i \in past : \A j \in past : table[j].date <= table[i].date}

\* C5: the current location and diet of an active animal are never taken
\* from an event dated after the evaluation date
C5_CutoffIsToday ==
    \A a \in Animals :
        LET k == AnimalKpis(a)
            locs == {location_change[i].location_id : i \in LatestUpToToday(location_change, a)}
            diets == {diet_log[i].diet_type : i \in LatestUpToToday(diet_log, a)}
        IN  k.status = "Active" =>
              /\ locs # {} => k.current_location_id \in {Some(l) : l \in locs}
              /\ diets # {} => k.current_diet_type \in {Some(d) : d \in diets}

\* C6: an active animal without location changes reports null location
\* fields, and without diet logs null diet fields
C6_NullWithoutEvents ==
    \A a \in Animals :
        LET k == AnimalKpis(a)
        IN  k.status = "Active" =>
              /\ Rows(location_change, a) = {} =>
                   /\ k.current_location_id = NULL
                   /\ k.current_location_name = NULL
                   /\ k.current_sublocation_id = NULL
                   /\ k.current_sublocation_name = NULL
              /\ Rows(diet_log, a) = {} =>
                   /\ k.current_diet_type = NULL
                   /\ k.current_diet_intake = NULL

LastWeighingDate(a) ==
    LET rows == Rows(weighting, a)
    IN  weighting[CHOOSE i \in rows : \A j \in rows : weighting[j].date <= weighting[i].date].date

\* C7: in every endpoint that reports a GMD, an active animal whose last
\* weighing is on its entry date gets a GMD of 0 (not null) and a forecast
\* that is not null and equals its last weight
C7_ZeroDaysGivesZeroGmd ==
    \A a \in Animals :
        (/\ ~is_sold(a) /\ ~is_dead(a)
         /\ Rows(weighting, a) # {}
         /\ LastWeighingDate(a) = purchase[a].entry_date)
        => /\ AnimalKpis(a).average_daily_gain_kg = 0
           /\ AnimalKpis(a).forecasted_current_weight_kg = Some(AnimalKpis(a).last_weight_kg)
           /\ \A r \in SummaryRows(a) :
                /\ r.average_daily_gain_kg # NULL
                /\ RatIsZero(Val(r.average_daily_gain_kg))
                /\ r.forecasted_current_weight_kg # NULL
                /\ RatEqualsInt(Val(r.forecasted_current_weight_kg), r.last_weight_kg)

\* C8: each point i of a weight history has an accumulated GMD equal to
\* (weight[i] - weight[1]) / days(date[i] - date[1]) and a period GMD equal to
\* (weight[i] - weight[i-1]) / days(date[i] - date[i-1]), as reported to three
\* decimals, each 0 when its day delta is 0; the first point has both 0
IsQuotientTo3Decimals(reported, gain, days) ==
    IF days > 0 THEN 2 * Abs(reported * days - gain) <= days ELSE reported = 0

C8_GmdOfEachPoint ==
    \A a \in Animals : \A r \in WeightHistory(a) :
        LET s == r.sorted_events
            h == r.history
        IN  /\ Len(h) = Len(s)
            /\ h[1].gmd_accumulated_grams = 0
            /\ h[1].gmd_period_grams = 0
            /\ \A i \in 1 .. Len(h) :
                 IsQuotientTo3Decimals(h[i].gmd_accumulated_grams,
                                       s[i].weight_kg - s[1].weight_kg,
                                       s[i].date - s[1].date)
            /\ \A i \in 2 .. Len(h) :
                 IsQuotientTo3Decimals(h[i].gmd_period_grams,
                                       s[i].weight_kg - s[i - 1].weight_kg,
                                       s[i].date - s[i - 1].date)

\* a history with a zero-day period between different weights, and a later
\* point whose accumulated and period quotients are not whole
C8_Witness ==
    \E a \in Animals : \E r \in WeightHistory(a) :
        LET s == r.sorted_events
            h == r.history
        IN  /\ \E i \in 2 .. Len(s) :
                 s[i].date = s[i - 1].date /\ s[i].weight_kg # s[i - 1].weight_kg
            /\ \E i \in 2 .. Len(s) :
                 /\ s[i].date - s[i - 1].date > 1
                 /\ (s[i].weight_kg - s[i - 1].weight_kg) % (s[i].date - s[i - 1].date) # 0
                 /\ (s[i].weight_kg - s[1].weight_kg) % (s[i].date - s[1].date) # 0
                 /\ h[i].gmd_period_grams # 0
                 /\ h[i].gmd_accumulated_grams # h[i].gmd_period_grams

RECURSIVE PeriodGains(_, _, _)
\* sum over the points 2 .. n of reported period GMD * period day count
PeriodGains(s, h, n) ==
    IF n <= 1 THEN 0
    ELSE PeriodGains(s, h, n - 1) + h[n].gmd_period_grams * (s[n].date - s[n - 1].date)

DistinctDates(s) == \A i \in 2 .. Len(s) : s[i].date > s[i - 1].date

\* C9 as stated: the period gains of every sorted series, also one with two
\* weighings of different weights on one date, add up to
\* weight[last] - weight[first]
C9_Telescoping ==
    \A a \in Animals : \A r \in WeightHistory(a) :
        PeriodGains(r.sorted_events, r.history, Len(r.history))
          = r.sorted_events[Len(r.sorted_events)].weight_kg - r.sorted_events[1].weight_kg

\* C9 as amended: for a series in which no two points share a date the
\* period gains add up to weight[last] - weight[first] to within the rounding
\* of the period GMDs, less than 0.001 kg for each elapsed day
C9_TelescopingDistinctDates ==
    \A a \in Animals : \A r \in WeightHistory(a) :
        LET s == r.sorted_events
            n == Len(s)
            diff == PeriodGains(s, r.history, n) - (s[n].weight_kg - s[1].weight_kg)
        IN  DistinctDates(s) =>
              IF n = 1 THEN diff = 0 ELSE Abs(diff) < s[n].date - s[1].date

C9_Witness ==
    \E a \in Animals : \E r \in WeightHistory(a) :
        LET s == r.sorted_events
        IN  /\ Len(s) >= 3
            /\ DistinctDates(s)
            /\ s[Len(s)].weight_kg # s[1].weight_kg
            /\ PeriodGains(s, r.history, Len(s)) # s[Len(s)].weight_kg - s[1].weight_kg

\* C10: the weight history has the entry point, one point for each distinct
\* (date, weight) pair among entry and weighings, and ascending dates
C10_HistoryPoints ==
    \A a \in Animals : \A r \in WeightHistory(a) :
        LET h == r.history
            entry == [date |-> purchase[a].entry_date, weight_kg |-> purchase[a].entry_weight]
            pairs == {entry} \cup
                     {[date |-> weighting[i].date, weight_kg |-> weighting[i].weight_kg] :
                        i \in Rows(weighting, a)}
            shown(p) == {i \in 1 .. Len(h) :
                           h[i].date = p.date /\ h[i].weight_kg = Round2(p.weight_kg)}
            alike(p) == {q \in pairs :
                           q.date = p.date /\ Round2(q.weight_kg) = Round2(p.weight_kg)}
        IN  /\ shown(entry) # {}
            /\ Len(h) = Cardinality(pairs)
            /\ \A p \in pairs : Cardinality(shown(p)) = Cardinality(alike(p))
            /\ \A i \in 2 .. Len(h) : h[i - 1].date <= h[i].date

\* an explicit weighing equal to the entry anchor, a second weighing on the
\* entry date, and a weighing dated before the entry
C10_Witness ==
    \E a \in Animals : \E r \in WeightHistory(a) :
        /\ Cardinality({i \in Rows(weighting, a) :
              /\ weighting[i].date = purchase[a].entry_date
              /\ weighting[i].weight_kg = purchase[a].entry_weight}) >= 2
        /\ \E i \in Rows(weighting, a) : weighting[i].date < purchase[a].entry_date
        /\ Len(r.history) = 2
        /\ r.history[2].date = purchase[a].entry_date

\* the stored weighings of animal a are at most its entry-date anchor
OnlyAnchorWeighing(a) ==
    /\ Cardinality(Rows(weighting, a)) <= 1
    /\ \A i \in Rows(weighting, a) :
         /\ weighting[i].date = purchase[a].entry_date
         /\ weighting[i].weight_kg = purchase[a].entry_weight

IsForecastOf(forecast, last_weight, gmd, days) ==
    forecast.num * gmd.den = (last_weight * gmd.den + gmd.num * days) * forecast.den

\* C12: every endpoint that reports a forecast for an active animal computes
\* it as last_weight + gmd_used * (days from the last weighing date to the
\* evaluation date); the per-animal KPIs report it to 2 decimals
C12_ForecastFormula ==
    \A a \in Animals :
        (~is_sold(a) /\ ~is_dead(a) /\ Rows(weighting, a) # {}) =>
            LET k == AnimalKpis(a)
                days == today - LastWeighingDate(a)
            IN  /\ k.forecasted_current_weight_kg # NULL
                /\ Abs(Val(k.forecasted_current_weight_kg)
                       - (k.last_weight_kg + k.average_daily_gain_kg
                                              * (today - k.last_weighting_date)))
                     <= 10 + Abs(today - k.last_weighting_date)
                /\ \A r \in SummaryRows(a) :
                     r.average_daily_gain_kg # NULL =>
                       /\ r.forecasted_current_weight_kg # NULL
                       /\ IsForecastOf(Val(r.forecasted_current_weight_kg), r.last_weight_kg,
                                       Val(r.average_daily_gain_kg), days)
                /\ backend = "flask" =>
                     \A r \in get_location_summary_animals(a) :
                        IsForecastOf(Val(r.forecasted_current_weight_kg), r.last_weight_kg,
                                     Val(r.average_daily_gain_kg), days)
                /\ backend = "django" =>
                     LET r == animal_search(a)
                     IN  r.average_daily_gain_kg # NULL =>
                           IsForecastOf(Val(r.forecasted_current_weight_kg),
                                        Val(r.last_weight_kg),
                                        Val(r.average_daily_gain_kg), days)

\* C13: the per-animal KPIs of a Sold animal report
\* days_on_farm = sale.date - entry_date and those of a Dead animal report
\* days_on_farm = death.date - entry_date
C13_TerminalDaysOnFarm ==
    \A a \in Animals :
        LET k == AnimalKpis(a)
        IN  /\ k.status = "Sold" =>
                 /\ "days_on_farm" \in DOMAIN k
                 /\ k.days_on_farm = SaleOf(a).date - purchase[a].entry_date
            /\ k.status = "Dead" =>
                 /\ "days_on_farm" \in DOMAIN k
                 /\ k.days_on_farm = DeathOf(a).date - purchase[a].entry_date

\* C14: the KPIs of a Sold or Dead animal are frozen: the same event set
\* evaluated on another date gives the same status, age, days_on_farm, weight
\* and forecast values
C14_TerminalKpisFrozen ==
    \A a \in Animals :
        AnimalKpis(a).status \in {"Sold", "Dead"} =>
            \A now \in HistoryDates : AnimalKpisAt(a, now) = AnimalKpis(a)

\* a dead animal evaluated after the date of its death: its age is no longer
\* the age it would have today
C14_Witness ==
    \E a \in Animals :
        /\ AnimalKpis(a).status = "Dead"
        /\ today > DeathOf(a).date
        /\ DeathOf(a).date >= purchase[a].entry_date
        /\ AnimalKpis(a).current_age_months
             # AgeMonths(purchase[a].entry_age, today - purchase[a].entry_date)

TerminalDate(a) == IF is_sold(a) THEN SaleOf(a).date ELSE DeathOf(a).date

\* C15: for a Sold or Dead animal last_weighting_date is never later than the
\* sale/death date, and no request made after the terminal event was
\* recorded changes last_weight_kg or average_daily_gain_kg
C15_WeightKpisAtTerminalDate ==
    [][\A a \in Animals :
          (is_sold(a) \/ is_dead(a)) =>
              /\ AnimalKpis(a).last_weighting_date <= TerminalDate(a)
              /\ AnimalKpis(a)'.last_weight_kg = AnimalKpis(a).last_weight_kg
              /\ AnimalKpis(a)'.average_daily_gain_kg = AnimalKpis(a).average_daily_gain_kg]_vars

\* C20: every stored LocationChange that has a sublocation references a
\* sublocation whose parent location is the event's location and whose farm
\* is the animal's farm
C20_SublocationBelongsToLocation ==
    \A i \in Ids(location_change) :
        LET lc == location_change[i]
        IN  lc.sublocation_id # NULL =>
              /\ Val(lc.sublocation_id) \in Sublocations
              /\ SublocationLocation(Val(lc.sublocation_id)) = lc.location_id
              /\ SublocationFarm(Val(lc.sublocation_id)) = purchase[lc.animal_id].farm_id

\* the active animals whose resolved current location is l: the location of
\* the animal's location change with the latest date, the newest record among
\* changes of one date
ResolvedTo(f, l) ==
    {a \in ActiveAnimals(f) :
        /\ LatestByDateAndId(location_change, a) # NULL
        /\ location_change[Val(LatestByDateAndId(location_change, a))].location_id = l}

\* C16: for a location whose area_hectares is null or <= 0 both capacity rates
\* are null whatever its occupants, and animal_count is the number of active
\* animals resolved to the location
C16_NoAreaNoRate ==
    \A f \in Farms, l \in Locations, area \in AreaValues :
        ~(area # NULL /\ Val(area) > 0) =>
            \A k \in {LocationKpis(f, l, area), calculate_location_kpis(f, l, area)} :
                /\ k.capacity_rate_actual_ua_ha = NULL
                /\ k.capacity_rate_forecasted_ua_ha = NULL
                /\ k.animal_count = Cardinality(ResolvedTo(f, l))

\* the weight an occupant brings to its location: the weight of its newest
\* weighing and the forecast from it at the animal's average daily gain
OccupantWeights(f, l) ==
    {[animal_id |-> a,
      weight_kg |-> weighting[Val(LatestByDateAndId(weighting, a))].weight_kg,
      forecasted_weight |->
          LET w == weighting[Val(LatestByDateAndId(weighting, a))]
              days == w.date - purchase[a].entry_date
              gmd == IF days > 0 THEN Rat(w.weight_kg - purchase[a].entry_weight, days)
                     ELSE Rat(0, 1)
          IN  Rat(w.weight_kg * gmd.den + gmd.num * (today - w.date), gmd.den)] :
     a \in {b \in ResolvedTo(f, l) : LatestByDateAndId(weighting, b) # NULL}}

\* C17: for a location with area_hectares > 0 the three implementations of the
\* location KPI report capacity_rate = (sum of the occupants' weights / 450) /
\* area_hectares for the actual and for the forecasted weights, and agree with
\* each other for every set of occupants, the empty one included
C17_CapacityRateAgreement ==
    \A f \in Farms, l \in Locations, area \in AreaValues :
        (area # NULL /\ Val(area) > 0) =>
            LET occupants == OccupantWeights(f, l)
                actual == Some(CapacityRate(Rat(TotalWeight(occupants), 1), Val(area)))
                forecasted == Some(CapacityRate(TotalForecast(occupants), Val(area)))
            IN  \A k \in {calculate_location_kpis(f, l, area),
                          get_all_locations(f, l, area),
                          LocationSerializer_get_kpis(f, l, area)} :
                    /\ k.capacity_rate_actual_ua_ha = actual
                    /\ k.capacity_rate_forecasted_ua_ha = forecasted

\* the sum of a function's values over a set of its arguments
RECURSIVE SumOver(_, _)
SumOver(fn, S) ==
    IF S = {} THEN 0
    ELSE LET x == CHOOSE x \in S : TRUE
         IN  fn[x] + SumOver(fn, S \ {x})

ActiveWithLocation(f) ==
    {a \in ActiveAnimals(f) :
        \E i \in Ids(location_change) : location_change[i].animal_id = a}

\* C18: in the location summary every Active animal with a location event is
\* counted in exactly one location and Sold or Dead animals nowhere: the
\* animal_count values of a farm's locations add up to the number of its
\* Active animals that have a location event, same-date location changes and
\* same-date weighings included
C18_EachActiveAnimalCountedOnce ==
    \A f \in Farms, area \in AreaValues :
        /\ SumOver([l \in Locations |-> get_all_locations(f, l, area).animal_count],
                   Locations) = Cardinality(ActiveWithLocation(f))
        /\ SumOver([l \in Locations |-> calculate_location_kpis(f, l, area).animal_count],
                   Locations) = Cardinality(ActiveWithLocation(f))
        /\ SumOver([l \in Locations |-> LocationSerializer_get_kpis(f, l, area).animal_count],
                   Locations) = Cardinality(ActiveWithLocation(f))

\* C19: each Active animal of the farm contributes exactly once to its lot's
\* row of the lot summary: animal_count is the number of Active animals with
\* that lot label, and average_age_months is the unweighted mean of their
\* ages, several weighings on an animal's latest weighing date included
C19_LotRowCountsEachAnimalOnce ==
    \A f \in Farms, lot \in Lots :
        LET members == {a \in ActiveAnimals(f) : purchase[a].lot = lot}
            ages == {[animal_id |-> a, age |-> age_months_expr(a)] : a \in members}
        IN  members # {} =>
              \A row \in {get_lots_summary(f, lot), lots_summary(f, lot)} :
                  /\ row # NULL
                  /\ Val(row).animal_count = Cardinality(members)
                  /\ Val(row).average_age_months.num * Cardinality(members)
                        = TotalAge(ages) * Val(row).average_age_months.den

\* C21: the Flask computation (baseline = earliest stored weighing) and the
\* Django computation (baseline = purchase entry date and weight) of the
\* per-animal KPIs return the same average_daily_gain_kg and last_weight_kg
\* for every animal and every set of weighings, a weighing dated before the
\* entry date included
C21_BackendsAgreeOnGmd ==
    \A a \in Animals :
        /\ calculate_kpis(a).average_daily_gain_kg
              = get_calculated_kpis(a).average_daily_gain_kg
        /\ calculate_kpis(a).last_weight_kg = get_calculated_kpis(a).last_weight_kg

\* C22: a sale request records the Sale and its same-day final Weighting
\* together or not at all: a step that adds a Sale adds exactly one Sale, for
\* an animal that was not sold (and, in Django, not dead), together with
\* exactly one Weighting of the same animal, farm and date, and leaves every
\* earlier weighing and terminal event as it was
C22_SaleAndWeighingTogether ==
    [][sale' # sale =>
          LET new_sale == sale'[Len(sale')]
              final_weighting == weighting'[Len(weighting')]
          IN  /\ sale' = Append(sale, new_sale)
              /\ weighting' = Append(weighting, final_weighting)
              /\ final_weighting.animal_id = new_sale.animal_id
              /\ final_weighting.farm_id = new_sale.farm_id
              /\ final_weighting.date = new_sale.date
              /\ ~is_sold(new_sale.animal_id)
              /\ backend = "django" => ~is_dead(new_sale.animal_id)
              /\ death' = death]_vars

C22_Witness ==
    \E i \in Ids(sale), j \in Ids(weighting) :
        /\ weighting[j].animal_id = sale[i].animal_id
        /\ weighting[j].date = sale[i].date
        /\ weighting[j].date # purchase[sale[i].animal_id].entry_date
        /\ \A k \in Ids(weighting) : k # j => weighting[k].date # sale[i].date

\* C23: the active-stock summary is computed from one consistent snapshot: in
\* every response total_active_animals equals the number of distinct animals
\* in the animals list and no animal appears twice in that list, a sale or
\* death committed between the two queries included
C23_StockSummaryConsistent ==
    stock_request.pc = "done" =>
        /\ stock_request.total_active_animals
              = Cardinality({r.animal_id : r \in stock_request.animals})
        /\ \A r1, r2 \in stock_request.animals : r1.animal_id = r2.animal_id => r1 = r2

\* a table keeps every row it had
Grows(old, new) ==
    /\ Len(new) >= Len(old)
    /\ \A i \in 1 .. Len(old) : new[i] = old[i]

\* C24: event collections are append-only: no API operation removes or
\* modifies a previously recorded weighing, location change, diet log, sale
\* or death, so the events recorded for an animal only grow
C24_EventsAppendOnly ==
    [][/\ Grows(weighting, weighting')
       /\ Grows(location_change, location_change')
       /\ Grows(diet_log, diet_log')
       /\ Grows(sale, sale')
       /\ Grows(death, death')]_vars

\* C25: when a sale request and a death request for the same Active animal
\* are processed concurrently, each checking 'already sold / already dead'
\* before its insert, at most one succeeds: the animal never has both a Sale
\* and a Death
C25_NeverSoldAndDead ==
    \A a \in Animals : ~(is_sold(a) /\ is_dead(a))

\* the animal's current sublocation as Purchase.calculate_kpis and
\* utils.calculate_location_kpis resolve it from a LocationChange table
ResolvedSublocation(table, a) ==
    IF RowsOf(table, a) = << >> THEN NULL
    ELSE table[latest_by_sorted(table, a)].sublocation_id

\* C26: after a successful bulk_move_herd with any accepted date no Active
\* animal's resolved current sublocation is still the source sublocation, and
\* every animal that was in the source is resolved to the destination, a move
\* dated on or before the animal's latest location change included
C26_BulkMoveEmptiesSource ==
    [][\A f \in Farms, d \in Dates, source_id \in Sublocations, dest_id \in Sublocations :
          (source_id # dest_id /\ bulk_move_herd(f, d, source_id, dest_id)) =>
              \A a \in ActiveAnimals(f) :
                  /\ ResolvedSublocation(location_change', a) # Some(source_id)
                  /\ ResolvedSublocation(location_change, a) = Some(source_id)
                        => ResolvedSublocation(location_change', a) = Some(dest_id)]_vars

\* the animal's current location change as the serving backend resolves it
CurrentChange(a) ==
    IF backend = "flask" THEN location_change[latest_by_sorted(location_change, a)]
    ELSE location_change[Val(LatestByDateAndId(location_change, a))]

\* C27: bulk_assign_sublocation creates a new LocationChange only for Active
\* animals whose latest location is the given parent location and that are
\* not yet in a sublocation; animals that already have a sublocation, animals
\* in other locations and Sold or Dead animals get no new event
C27_BulkAssignOnlyUnassigned ==
    [][\A f \in Farms, location_id \in Locations, d \in Dates, dest_id \in Sublocations :
          (\/ bulk_assign_sublocation(f, location_id, d, dest_id)
           \/ django_bulk_assign_sublocation(f, location_id, d, dest_id)) =>
              \A i \in Len(location_change) + 1 .. Len(location_change') :
                  LET a == location_change'[i].animal_id
                  IN  /\ a \in ActiveAnimals(f)
                      /\ CurrentChange(a).location_id = location_id
                      /\ CurrentChange(a).sublocation_id = NULL]_vars

\* C28: a purchase request creates the Purchase, its initial Weighting at
\* (entry_date, entry_weight) and its initial LocationChange at entry_date
\* together or not at all, so no two animals of a farm share (ear_tag, lot)
\* and every animal has its entry weighing and its entry location
C28_PurchaseWithEntryRecords ==
    /\ \A a, b \in Animals :
          (/\ purchase[a].farm_id = purchase[b].farm_id
           /\ purchase[a].ear_tag = purchase[b].ear_tag
           /\ purchase[a].lot = purchase[b].lot) => a = b
    /\ \A a \in Animals :
          /\ \E i \in Ids(weighting) :
                weighting[i] = Weighting(a, purchase[a].farm_id, purchase[a].entry_date,
                                         purchase[a].entry_weight)
          /\ \E i \in Ids(location_change) :
                /\ location_change[i].animal_id = a
                /\ location_change[i].farm_id = purchase[a].farm_id
                /\ location_change[i].date = purchase[a].entry_date

\* C29: every stored weighing, sale, death, location change, diet log and
\* sanitary protocol carries the farm_id of the animal it belongs to, whatever
\* farm_id the requests were addressed with
C29_EventsFarmScoped ==
    /\ \A i \in Ids(weighting) : weighting[i].farm_id = purchase[weighting[i].animal_id].farm_id
    /\ \A i \in Ids(sale) : sale[i].farm_id = purchase[sale[i].animal_id].farm_id
    /\ \A i \in Ids(death) : death[i].farm_id = purchase[death[i].animal_id].farm_id
    /\ \A i \in Ids(location_change) :
          location_change[i].farm_id = purchase[location_change[i].animal_id].farm_id
    /\ \A i \in Ids(diet_log) : diet_log[i].farm_id = purchase[diet_log[i].animal_id].farm_id
    /\ \A i \in Ids(sanitary_protocol) :
          sanitary_protocol[i].farm_id = purchase[sanitary_protocol[i].animal_id].farm_id

\* an animal with a later weighing, a diet log and a sanitary protocol of its own
C29_Witness ==
    /\ Len(weighting) >= 2
    /\ Len(diet_log) >= 1
    /\ Len(sanitary_protocol) >= 1
    /\ Len(location_change) >= 1

\* the rows of a table, whatever their ids
RowSet(table) == {table[i] : i \in Ids(table)}

\* the store holds what the last export read: the farm, its locations and
\* sublocations, its animals and each animal's events
Restored(st) ==
    /\ farm = st.farm /\ location = st.location /\ sublocation = st.sublocation
    /\ purchase = st.purchase
    /\ RowSet(weighting) = RowSet(st.weighting)
    /\ RowSet(sanitary_protocol) = RowSet(st.sanitary_protocol)
    /\ RowSet(location_change) = RowSet(st.location_change)
    /\ RowSet(diet_log) = RowSet(st.diet_log)
    /\ RowSet(sale) = RowSet(st.sale)
    /\ RowSet(death) = RowSet(st.death)

\* C30: when import_farms has answered an import of the exported file, then
\* either the farm name existed and nothing changed, or the store holds the
\* exported farm again, with its locations, sublocations, animals and events;
\* a failed import persists nothing
C30_ExportImportRoundTrip ==
    [][(import_response = NULL /\ import_response' # NULL) =>
          /\ (\E fr \in farm : fr.name = Val(export_file).farms[1].name) => Store' = Store
          /\ ~(\E fr \in farm : fr.name = Val(export_file).farms[1].name) =>
                /\ import_response' = Some(201)
                /\ Restored(Val(exported))'
          /\ import_response' \notin {Some(200), Some(201)} => Store' = Store]_vars

\* a failed import persists nothing, and an import of a file whose farm
\* names all exist changes nothing
C30_ImportAllOrNothing ==
    [][(import_response = NULL /\ import_response' # NULL) =>
          /\ (\E fr \in farm : fr.name = Val(export_file).farms[1].name) => Store' = Store
          /\ import_response' \notin {Some(200), Some(201)} => Store' = Store]_vars

\* the exported farm had an animal, was deleted, and the import of the file
\* has been answered
C30_Witness ==
    /\ import_response # NULL
    /\ exported # NULL /\ Len(Val(exported).purchase) > 0
    /\ import_response # Some(200)

=============================================================================
